---- MODULE Spec2Model ----
(***************************************************************************)
(* The contradiction detector of Smart Doc Checker                         *)
(* (backend/checker/contradiction_detector.py) as a state machine.         *)
(*                                                                         *)
(* Text is a sequence of one-character strings, so that trimming,          *)
(* lower-casing, substring tests and the regular expressions of the        *)
(* comparators are computed character by character as Python computes      *)
(* them.  A clause value is [kind |-> "str", text |-> t] or                *)
(* [kind |-> "list", items |-> <<t1, ..., tn>>], the two shapes of value   *)
(* the parser and the tests hand to the detector.                          *)
(***************************************************************************)
EXTENDS Integers, Sequences, FiniteSets, TLC

VARIABLES
    documents,            \* the batch handed to detect_contradictions
    contradictions,       \* the list it returned
    comparisons,          \* ghost: calls of _compare_clause_values it made
    pc,                   \* "input" while the batch is assembled, "done" after the call
    contradiction_rules,  \* self.contradiction_rules
    cmp,                  \* the last direct call of _compare_clause_values
    run,                  \* the last call of process_documents and what it returned
    db,                    \* the tables of the database and their id sequences
    prs,                  \* a call of one of the parser's functions and its value
    call                  \* a call of generate_contradiction_report or delete_document

detVars == <<documents, contradictions, comparisons, pc, contradiction_rules>>
pipeVars == <<run, db, prs, call>>
vars == <<documents, contradictions, comparisons, pc, contradiction_rules, cmp, run, db, prs, call>>

----------------------------------------------------------------------------
(* Python's str primitives on character sequences *)

MinOf(S) == CHOOSE x \in S : \A y \in S : x <= y

\* the greatest element, found as the least of the negated ones
MaxOf(S) == 0 - MinOf({0 - x : x \in S})

AbsDiff(a, b) == IF a >= b THEN a - b ELSE b - a

DigitChars == <<"0","1","2","3","4","5","6","7","8","9">>

DigitSet == {DigitChars[k] : k \in 1..10}

\* the whitespace that \s, str.strip and str.split recognise (ASCII part)
SpaceSet == {" ", "\t", "\n"}

UpperChars == <<"A","B","C","D","E","F","G","H","I","J","K","L","M",
                "N","O","P","Q","R","S","T","U","V","W","X","Y","Z">>

LowerChars == <<"a","b","c","d","e","f","g","h","i","j","k","l","m",
                "n","o","p","q","r","s","t","u","v","w","x","y","z">>

LowerChar(c) ==
    IF \E k \in 1..26 : UpperChars[k] = c
    THEN LowerChars[CHOOSE k \in 1..26 : UpperChars[k] = c]
    ELSE c

UpperChar(c) ==
    IF \E k \in 1..26 : LowerChars[k] = c
    THEN UpperChars[CHOOSE k \in 1..26 : LowerChars[k] = c]
    ELSE c

\* str.lower()
str_lower(s) == [i \in 1..Len(s) |-> LowerChar(s[i])]

\* str.upper()
str_upper(s) == [i \in 1..Len(s) |-> UpperChar(s[i])]

\* str.strip()
str_strip(s) ==
    LET keep == {i \in 1..Len(s) : s[i] \notin SpaceSet}
    IN  IF keep = {} THEN <<>> ELSE SubSeq(s, MinOf(keep), MaxOf(keep))

\* needle in haystack
str_contains(s, w) ==
    \E i \in 1..(Len(s) - Len(w) + 1) : SubSeq(s, i, i + Len(w) - 1) = w

\* set(str.split()): the maximal runs of non-whitespace characters
str_split_set(s) ==
    LET starts == {i \in 1..Len(s) :
                      s[i] \notin SpaceSet /\ (i = 1 \/ s[i - 1] \in SpaceSet)}
        stop(i) == LET sp == {k \in i..Len(s) : s[k] \in SpaceSet}
                   IN  IF sp = {} THEN Len(s) ELSE MinOf(sp) - 1
    IN  {SubSeq(s, i, stop(i)) : i \in starts}

\* int() of a run of decimal digits
RECURSIVE IntOf(_)
IntOf(s) ==
    IF s = <<>> THEN 0
    ELSE IntOf(SubSeq(s, 1, Len(s) - 1)) * 10
         + ((CHOOSE d \in 1..10 : DigitChars[d] = s[Len(s)]) - 1)

RECURSIVE Pow10(_)
Pow10(k) == IF k = 0 THEN 1 ELSE 10 * Pow10(k - 1)

\* repr of a list of str: ['a', 'b'] (texts without quotes or backslashes)
RECURSIVE ReprItems(_)
ReprItems(items) ==
    IF items = <<>> THEN <<>>
    ELSE <<"'">> \o Head(items) \o <<"'">>
         \o (IF Len(items) > 1 THEN <<",", " ">> ELSE <<>>)
         \o ReprItems(Tail(items))

\* str(value)
py_str(value) ==
    IF value.kind = "str" THEN value.text
    ELSE <<"[">> \o ReprItems(value.items) \o <<"]">>

----------------------------------------------------------------------------
(* Regular-expression steps: a greedy run, a case-insensitive literal *)

\* last index of the run of characters of `set` that starts at i (i - 1: no run)
RunEnd(s, i, set) ==
    LET stops == {k \in i..Len(s) : s[k] \notin set}
    IN  IF stops = {} THEN Len(s) ELSE MinOf(stops) - 1

\* the lower-case literal w matches s at i under re.IGNORECASE
MatchCI(s, i, w) ==
    /\ i + Len(w) - 1 <= Len(s)
    /\ \A k \in 1..Len(w) : LowerChar(s[i + k - 1]) = w[k]

Some(x) == [some |-> TRUE, v |-> x]

None == [some |-> FALSE]

\* an exception on its way up the call stack, in place of a returned value
Raise(exception) == [raised |-> exception]

Raised(r) == "raised" \in DOMAIN r

\* sys.get_int_max_str_digits(): int() of a longer digit string raises ValueError
int_max_str_digits == 4300

----------------------------------------------------------------------------
(* _compare_time_durations *)

\* (\d+)\s+(days?|weeks?|months?) matches at i; every quantifier is greedy and
\* no shorter run can be followed by the next token, so the match is unique
DurationMatchAt(s, i) ==
    /\ s[i] \in DigitSet
    /\ LET e == RunEnd(s, i, DigitSet)
           w == RunEnd(s, e + 1, SpaceSet)
       IN  /\ w > e
           /\ \/ MatchCI(s, w + 1, <<"d","a","y">>)
              \/ MatchCI(s, w + 1, <<"w","e","e","k">>)
              \/ MatchCI(s, w + 1, <<"m","o","n","t","h">>)

\* re.search returns the leftmost match; int(number) raises on a run of more
\* than int_max_str_digits digits
parse_duration(value) ==
    LET s == py_str(value)
    IN  IF ~\E i \in 1..Len(s) : DurationMatchAt(s, i) THEN None
        ELSE LET i == CHOOSE i \in 1..Len(s) :
                          /\ DurationMatchAt(s, i)
                          /\ \A j \in 1..(i - 1) : ~DurationMatchAt(s, j)
                 e == RunEnd(s, i, DigitSet)
                 w == RunEnd(s, e + 1, SpaceSet)
             IN  IF e - i + 1 > int_max_str_digits THEN Raise("ValueError")
                 ELSE IF MatchCI(s, w + 1, <<"d","a","y">>) THEN Some(IntOf(SubSeq(s, i, e)))
                 ELSE IF MatchCI(s, w + 1, <<"w","e","e","k">>) THEN Some(IntOf(SubSeq(s, i, e)) * 7)
                 ELSE Some(IntOf(SubSeq(s, i, e)) * 30)

\* a comparison of the raw texts that ignores the parsed day counts
DurationsParsed_textual(value1, value2, days1, days2) ==
    [differs |-> str_lower(str_strip(py_str(value1)))
                     # str_lower(str_strip(py_str(value2))),
     details |-> [comparison_type |-> "time_duration",
                  parsed_days1 |-> days1, parsed_days2 |-> days2,
                  difference_days |-> 0]]

\* the two parses and what follows them when neither raised
DurationsParsed(value1, value2, days1, days2) ==
    IF Raised(days1) THEN days1
    ELSE IF Raised(days2) THEN days2
    ELSE IF days1.some /\ days2.some
    THEN [differs |-> days1.v # days2.v,
          details |-> [comparison_type |-> "time_duration",
                       parsed_days1 |-> days1, parsed_days2 |-> days2,
                       difference_days |->
                           IF days1.v # days2.v THEN AbsDiff(days1.v, days2.v) ELSE 0]]
    ELSE [differs |-> str_lower(str_strip(py_str(value1)))
                          # str_lower(str_strip(py_str(value2))),
          details |-> [comparison_type |-> "time_duration",
                       parsed_days1 |-> days1, parsed_days2 |-> days2]]

_compare_time_durations(value1, value2) ==
    DurationsParsed(value1, value2, parse_duration(value1), parse_duration(value2))

----------------------------------------------------------------------------
(* _compare_time_ranges *)

\* \d{1,2}: two digits when the second character is a digit, else one
HourEnd(s, i) == IF i + 1 <= Len(s) /\ s[i + 1] \in DigitSet THEN i + 1 ELSE i

IsMeridiem(s, i) == MatchCI(s, i, <<"a","m">>) \/ MatchCI(s, i, <<"p","m">>)

\* position after (?:to|-) when it matches at i, else 0
AfterSeparator(s, i) ==
    IF MatchCI(s, i, <<"t","o">>) THEN i + 2
    ELSE IF MatchCI(s, i, <<"-">>) THEN i + 1
    ELSE 0

\* the positions of the groups of
\* (\d{1,2})\s*(am|pm)\s*(?:to|-)\s*(\d{1,2})\s*(am|pm) when it is tried at i
Meridiem1At(s, i) == RunEnd(s, HourEnd(s, i) + 1, SpaceSet) + 1

SeparatorAt(s, i) == RunEnd(s, Meridiem1At(s, i) + 2, SpaceSet) + 1

Hour2At(s, i) == RunEnd(s, AfterSeparator(s, SeparatorAt(s, i)), SpaceSet) + 1

Meridiem2At(s, i) == RunEnd(s, HourEnd(s, Hour2At(s, i)) + 1, SpaceSet) + 1

TimeRangeMatchAt(s, i) ==
    /\ s[i] \in DigitSet
    /\ IsMeridiem(s, Meridiem1At(s, i))
    /\ AfterSeparator(s, SeparatorAt(s, i)) > 0
    /\ Hour2At(s, i) <= Len(s)
    /\ s[Hour2At(s, i)] \in DigitSet
    /\ IsMeridiem(s, Meridiem2At(s, i))

\* a conversion that adds 12 to every PM hour and leaves every AM hour alone
To24_plain(hour, isPm) == IF isPm THEN hour + 12 ELSE hour

\* conversion of one end to the 24-hour clock
To24(hour, isPm) ==
    IF isPm /\ hour # 12 THEN hour + 12
    ELSE IF ~isPm /\ hour = 12 THEN 0
    ELSE hour

parse_time_range(value) ==
    LET s == py_str(value)
        starts == {i \in 1..Len(s) : TimeRangeMatchAt(s, i)}
    IN  IF starts = {} THEN None
        ELSE LET i == MinOf(starts)
                 start_hour == IntOf(SubSeq(s, i, HourEnd(s, i)))
                 end_hour == IntOf(SubSeq(s, Hour2At(s, i), HourEnd(s, Hour2At(s, i))))
             IN  Some(<<To24(start_hour, MatchCI(s, Meridiem1At(s, i), <<"p","m">>)),
                        To24(end_hour, MatchCI(s, Meridiem2At(s, i), <<"p","m">>))>>)

_compare_time_ranges(value1, value2) ==
    LET range1 == parse_time_range(value1)
        range2 == parse_time_range(value2)
    IN  IF range1.some /\ range2.some
        THEN IF range1.v # range2.v
             THEN [differs |-> TRUE,
                   details |-> [comparison_type |-> "time_range",
                                parsed_range1 |-> range1, parsed_range2 |-> range2,
                                start_time_diff |-> AbsDiff(range1.v[1], range2.v[1]),
                                end_time_diff |-> AbsDiff(range1.v[2], range2.v[2])]]
             ELSE [differs |-> FALSE,
                   details |-> [comparison_type |-> "time_range",
                                parsed_range1 |-> range1, parsed_range2 |-> range2]]
        ELSE [differs |-> str_lower(str_strip(py_str(value1)))
                              # str_lower(str_strip(py_str(value2))),
              details |-> [comparison_type |-> "time_range",
                           parsed_range1 |-> range1, parsed_range2 |-> range2]]

----------------------------------------------------------------------------
(* _compare_numeric_values.  A parsed float is the exact fraction n / d; the *)
(* amounts used are small enough for float arithmetic to be exact on them.  *)

Rat(n, d) == [n |-> n, d |-> d]

RatEq(a, b) == a.n * b.d = b.n * a.d

\* re.sub(r'[$,]', '', text)
StripCurrency(s) == SelectSeq(s, LAMBDA c : c \notin {"$", ","})

\* the fraction (\.\d+)? of the K pattern is present after the integer run ending at e
HasFraction(s, e) == e + 2 <= Len(s) /\ s[e + 1] = "." /\ s[e + 2] \in DigitSet

\* (\d+(?:\.\d+)?)\s*K matches at i (re.IGNORECASE)
KMatchAt(s, i) ==
    /\ s[i] \in DigitSet
    /\ LET e == RunEnd(s, i, DigitSet)
           f == IF HasFraction(s, e) THEN RunEnd(s, e + 2, DigitSet) ELSE e
           k == RunEnd(s, f + 1, SpaceSet) + 1
       IN  k <= Len(s) /\ LowerChar(s[k]) = "k"

\* the K notation read without its factor of 1000
KValue_unscaled(s, i) == Rat(IntOf(SubSeq(s, i, RunEnd(s, i, DigitSet))), 1)

\* float(k_match.group(1)) * 1000
KValue(s, i) ==
    LET e == RunEnd(s, i, DigitSet)
        whole == IntOf(SubSeq(s, i, e))
    IN  IF HasFraction(s, e)
        THEN LET f == RunEnd(s, e + 2, DigitSet)
                 scale == Pow10(f - e - 1)
             IN  Rat((whole * scale + IntOf(SubSeq(s, e + 2, f))) * 1000, scale)
        ELSE Rat(whole * 1000, 1)

\* float of the first (\d+(?:\.\d{2})?)
PlainValue(s, i) ==
    LET e == RunEnd(s, i, DigitSet)
        whole == IntOf(SubSeq(s, i, e))
    IN  IF e + 3 <= Len(s) /\ s[e + 1] = "."
           /\ s[e + 2] \in DigitSet /\ s[e + 3] \in DigitSet
        THEN Rat(whole * 100 + IntOf(SubSeq(s, e + 2, e + 3)), 100)
        ELSE Rat(whole, 1)

extract_number(value) ==
    LET cleaned == StripCurrency(py_str(value))
        hasK == \E i \in 1..Len(cleaned) : str_upper(cleaned)[i] = "K"
        kstarts == {i \in 1..Len(cleaned) : KMatchAt(cleaned, i)}
        dstarts == {i \in 1..Len(cleaned) : cleaned[i] \in DigitSet}
    IN  IF hasK /\ kstarts # {} THEN Some(KValue(cleaned, MinOf(kstarts)))
        ELSE IF dstarts # {} THEN Some(PlainValue(cleaned, MinOf(dstarts)))
        ELSE None

_compare_numeric_values(value1, value2) ==
    LET num1 == extract_number(value1)
        num2 == extract_number(value2)
    IN  IF num1.some /\ num2.some
        THEN [differs |-> ~RatEq(num1.v, num2.v),
              details |-> [comparison_type |-> "numeric",
                           parsed_num1 |-> num1, parsed_num2 |-> num2]]
        ELSE [differs |-> str_strip(py_str(value1)) # str_strip(py_str(value2)),
              details |-> [comparison_type |-> "numeric",
                           parsed_num1 |-> num1, parsed_num2 |-> num2]]

----------------------------------------------------------------------------
(* _compare_datetime_values *)

\* re.sub(r'\s+', ' ', text)
RECURSIVE CollapseFrom(_, _)
CollapseFrom(s, i) ==
    IF i > Len(s) THEN <<>>
    ELSE IF s[i] \in SpaceSet
         THEN (IF i > 1 /\ s[i - 1] \in SpaceSet THEN <<>> ELSE <<" ">>)
              \o CollapseFrom(s, i + 1)
         ELSE <<s[i]>> \o CollapseFrom(s, i + 1)

_compare_datetime_values(value1, value2) ==
    LET normalized1 == CollapseFrom(str_lower(str_strip(py_str(value1))), 1)
        normalized2 == CollapseFrom(str_lower(str_strip(py_str(value2))), 1)
    IN  [differs |-> normalized1 # normalized2,
         details |-> [comparison_type |-> "datetime"]]

----------------------------------------------------------------------------
(* _calculate_text_similarity, _compare_text_exact, _compare_date_lists, *)
(* _compare_text_semantic *)

\* Jaccard similarity as the fraction <<|intersection|, |union|>>
_calculate_text_similarity(text1, text2) ==
    IF text1 = <<>> /\ text2 = <<>> THEN <<1, 1>>
    ELSE IF text1 = <<>> \/ text2 = <<>> THEN <<0, 1>>
    ELSE LET words1 == str_split_set(text1)
             words2 == str_split_set(text2)
             union == Cardinality(words1 \cup words2)
         IN  IF union > 0 THEN <<Cardinality(words1 \cap words2), union>>
             ELSE <<0, 1>>

_compare_text_exact(value1, value2) ==
    LET normalized1 == str_lower(str_strip(py_str(value1)))
        normalized2 == str_lower(str_strip(py_str(value2)))
    IN  [differs |-> normalized1 # normalized2,
         details |-> [comparison_type |-> "text_exact",
                      similarity_score |->
                          _calculate_text_similarity(normalized1, normalized2)]]

_compare_date_lists(value1, value2) ==
    IF value1.kind = "list" /\ value2.kind = "list"
    THEN LET set1 == {str_lower(str_strip(value1.items[k])) : k \in 1..Len(value1.items)}
             set2 == {str_lower(str_strip(value2.items[k])) : k \in 1..Len(value2.items)}
         IN  [differs |-> set1 # set2,
              details |-> [comparison_type |-> "date_list",
                           common_dates |-> set1 \cap set2,
                           unique_to_doc1 |-> set1 \ set2,
                           unique_to_doc2 |-> set2 \ set1]]
    ELSE _compare_text_exact(value1, value2)

conflicting_pairs ==
    << <<<<"w","i","t","h">>, <<"w","i","t","h","o","u","t">>>>,
       <<<<"c","a","u","s","e">>, <<"n","o"," ","c","a","u","s","e">>>>,
       <<<<"i","m","m","e","d","i","a","t","e">>, <<"n","o","t","i","c","e">>>>,
       <<<<"e","i","t","h","e","r">>, <<"e","m","p","l","o","y","e","r"," ","o","n","l","y">>>> >>

\* a one-sided test of a pair: only term1 in text1 with term2 in text2
PairConflicts_oneway(pair, text1, text2) ==
    str_contains(text1, pair[1]) /\ str_contains(text2, pair[2])

\* the pair (term1, term2) conflicts: one text holds term1 and the other term2
PairConflicts(pair, text1, text2) ==
    \/ str_contains(text1, pair[1]) /\ str_contains(text2, pair[2])
    \/ str_contains(text1, pair[2]) /\ str_contains(text2, pair[1])

_compare_text_semantic(value1, value2) ==
    LET text1 == str_strip(str_lower(py_str(value1)))
        text2 == str_strip(str_lower(py_str(value2)))
        hits == {k \in 1..Len(conflicting_pairs) :
                    PairConflicts(conflicting_pairs[k], text1, text2)}
        similarity == _calculate_text_similarity(text1, text2)
    IN  IF hits # {}
        THEN [differs |-> TRUE,
              details |-> [comparison_type |-> "text_semantic",
                           semantic_conflict |-> TRUE,
                           conflicting_terms |-> conflicting_pairs[MinOf(hits)]]]
        ELSE [differs |-> 2 * similarity[1] < similarity[2],
              details |-> [comparison_type |-> "text_semantic",
                           semantic_conflict |-> FALSE,
                           similarity_score |-> similarity]]

----------------------------------------------------------------------------
(* _compare_clause_values *)

ComparisonTypes ==
    {"time_duration", "time_range", "numeric", "datetime", "date_list",
     "text_semantic", "text_exact"}

\* the try block: the comparator the comparison type selects
Dispatch(value1, value2, comparison_type) ==
    IF comparison_type = "time_duration" THEN _compare_time_durations(value1, value2)
    ELSE IF comparison_type = "time_range" THEN _compare_time_ranges(value1, value2)
    ELSE IF comparison_type = "numeric" THEN _compare_numeric_values(value1, value2)
    ELSE IF comparison_type = "datetime" THEN _compare_datetime_values(value1, value2)
    ELSE IF comparison_type = "date_list" THEN _compare_date_lists(value1, value2)
    ELSE IF comparison_type = "text_semantic" THEN _compare_text_semantic(value1, value2)
    ELSE _compare_text_exact(value1, value2)

\* except Exception as e: details["error"] = str(e); return False, details
\* (the message is abbreviated to the exception's type)
ExceptException(comparison_type, outcome) ==
    IF Raised(outcome)
    THEN [differs |-> FALSE,
          details |-> [comparison_type |-> comparison_type, error |-> outcome.raised]]
    ELSE outcome

\* the comparison without its try/except
_compare_clause_values_uncaught(value1, value2, comparison_type) ==
    Dispatch(value1, value2, comparison_type)

_compare_clause_values(value1, value2, comparison_type) ==
    ExceptException(comparison_type, Dispatch(value1, value2, comparison_type))

----------------------------------------------------------------------------
(* The rule table and the order of the sort key *)

_setup_contradiction_rules ==
    [notice_period |->
        [comparison_type |-> "time_duration", severity |-> "high",
         description |-> <<"Notice period requirements differ between documents">>],
     working_hours |->
        [comparison_type |-> "time_range", severity |-> "medium",
         description |-> <<"Working hours specifications are inconsistent">>],
     termination_clause |->
        [comparison_type |-> "text_semantic", severity |-> "high",
         description |-> <<"Termination conditions conflict between documents">>],
     deadline |->
        [comparison_type |-> "datetime", severity |-> "high",
         description |-> <<"Deadline requirements are contradictory">>],
     salary |->
        [comparison_type |-> "numeric", severity |-> "critical",
         description |-> <<"Salary amounts differ between documents">>],
     important_dates |->
        [comparison_type |-> "date_list", severity |-> "medium",
         description |-> <<"Important dates are inconsistent across documents">>]]

\* a lookup that ignores the table and always yields the default rule
rules_get_default(rules, clause_type) ==
    [comparison_type |-> "text_exact", severity |-> "medium",
     description |-> <<clause_type, " values differ between documents">>]

\* a lookup whose default rule has severity low
rules_get_low(rules, clause_type) ==
    IF clause_type \in DOMAIN rules THEN rules[clause_type]
    ELSE [comparison_type |-> "text_exact", severity |-> "low",
          description |-> <<clause_type, " values differ between documents">>]

\* self.contradiction_rules.get(clause_type, {...})
rules_get(rules, clause_type) ==
    IF clause_type \in DOMAIN rules THEN rules[clause_type]
    ELSE [comparison_type |-> "text_exact", severity |-> "medium",
          description |-> <<clause_type, " values differ between documents">>]

\* severity_order.get(severity, 3)
severity_order(severity) ==
    IF severity = "critical" THEN 0
    ELSE IF severity = "high" THEN 1
    ELSE IF severity = "medium" THEN 2
    ELSE 3

\* the characters of the clause-type names of the model
TypeText(clause_type) ==
    CASE clause_type = "notice_period" -> <<"n","o","t","i","c","e","_","p","e","r","i","o","d">>
      [] clause_type = "working_hours" -> <<"w","o","r","k","i","n","g","_","h","o","u","r","s">>
      [] clause_type = "termination_clause" -> <<"t","e","r","m","i","n","a","t","i","o","n","_","c","l","a","u","s","e">>
      [] clause_type = "deadline" -> <<"d","e","a","d","l","i","n","e">>
      [] clause_type = "salary" -> <<"s","a","l","a","r","y">>
      [] clause_type = "important_dates" -> <<"i","m","p","o","r","t","a","n","t","_","d","a","t","e","s">>
      [] clause_type = "bonus" -> <<"b","o","n","u","s">>
      [] clause_type = "Probation" -> <<"P","r","o","b","a","t","i","o","n">>

\* ord(c) for the characters of clause-type names: A-Z < _ < a-z
CodePoint(c) ==
    IF \E k \in 1..26 : UpperChars[k] = c
    THEN 64 + (CHOOSE k \in 1..26 : UpperChars[k] = c)
    ELSE IF c = "_" THEN 95
    ELSE 96 + (CHOOSE k \in 1..26 : LowerChars[k] = c)

\* a <= b for two str, as Python orders them (by code point, a prefix first)
StrLeq(a, b) ==
    LET diff == {k \in 1..Len(a) : k > Len(b) \/ a[k] # b[k]}
    IN  IF diff = {} THEN TRUE
        ELSE LET k == MinOf(diff)
             IN  k <= Len(b) /\ CodePoint(a[k]) < CodePoint(b[k])

\* key(a) <= key(b) for the key (severity_order, clause_type) of the sort
KeyLeq(a, b) ==
    \/ severity_order(a.severity) < severity_order(b.severity)
    \/ /\ severity_order(a.severity) = severity_order(b.severity)
       /\ StrLeq(TypeText(a.clause_type), TypeText(b.clause_type))

----------------------------------------------------------------------------
(* detect_contradictions *)

\* doc.get("doc_id") of a document that carries none
NoDocId == 0

\* the entries one document adds to clause_groups, in the order of its clause map
DocInstances(documents_, d) ==
    [k \in 1..Len(documents_[d].clauses) |->
        [filename |-> documents_[d].filename,
         doc_id |-> documents_[d].doc_id,
         value |-> documents_[d].clauses[k].value,
         clause_type |-> documents_[d].clauses[k].clause_type,
         pos |-> d]]               \* ghost: the document's position in the batch

RECURSIVE AllInstances(_, _)
AllInstances(documents_, d) ==
    IF d > Len(documents_) THEN <<>>
    ELSE DocInstances(documents_, d) \o AllInstances(documents_, d + 1)

\* the keys of clause_groups in insertion order
RECURSIVE TypeOrder(_)
TypeOrder(instances) ==
    IF instances = <<>> THEN <<>>
    ELSE LET front == TypeOrder(SubSeq(instances, 1, Len(instances) - 1))
             t == instances[Len(instances)].clause_type
         IN  IF \E k \in 1..Len(front) : front[k] = t THEN front
             ELSE Append(front, t)

_group_clauses_by_type(documents_) ==
    LET instances == AllInstances(documents_, 1)
        order == TypeOrder(instances)
    IN  [g \in 1..Len(order) |->
            [clause_type |-> order[g],
             instances |-> SelectSeq(instances, LAMBDA x : x.clause_type = order[g])]]

\* the index pairs of the nested loops, in the order the loops visit them
RECURSIVE PairsFrom(_, _, _)
PairsFrom(n, i, j) ==
    IF i > n THEN <<>>
    ELSE IF j > n THEN PairsFrom(n, i + 1, i + 2)
    ELSE << <<i, j>> >> \o PairsFrom(n, i, j + 1)

\* loops that stop one instance early: range(len - 1) in both
ComparedPairs_skiplast(n) == PairsFrom(n - 1, 1, 2)

ComparedPairs(n) == PairsFrom(n, 1, 2)

\* the body of the `if is_contradiction:` of one pair: the dict it appends
PairContradiction(rules, clause_type, clause1, clause2, compared) ==
    IF compared.differs
    THEN << [id |-> 0,
             clause_type |-> clause_type,
             severity |-> rules.severity,
             description |-> rules.description,
             documents |->
                 << [filename |-> clause1.filename, doc_id |-> clause1.doc_id,
                     value |-> clause1.value, pos |-> clause1.pos],
                    [filename |-> clause2.filename, doc_id |-> clause2.doc_id,
                     value |-> clause2.value, pos |-> clause2.pos] >>,
             details |-> compared.details] >>
    ELSE <<>>

\* one pass of the loop body: compare the pair, append when it differs
ComparePair(rules, clause_type, clause1, clause2) ==
    PairContradiction(rules, clause_type, clause1, clause2,
                      _compare_clause_values(clause1.value, clause2.value,
                                             rules.comparison_type))

\* the nested loops from the k-th pair on
RECURSIVE PairLoop(_, _, _, _, _)
PairLoop(rules, clause_type, clause_instances, pairs, k) ==
    IF k > Len(pairs) THEN <<>>
    ELSE ComparePair(rules, clause_type,
                     clause_instances[pairs[k][1]], clause_instances[pairs[k][2]])
         \o PairLoop(rules, clause_type, clause_instances, pairs, k + 1)

_detect_clause_contradictions(rules_table, clause_type, clause_instances) ==
    PairLoop(rules_get(rules_table, clause_type), clause_type, clause_instances,
             ComparedPairs(Len(clause_instances)), 1)

\* a sort that is not stable: an entry goes before the entries of equal key
RECURSIVE SortByKey_ties_reversed(_)
SortByKey_ties_reversed(list) ==
    IF list = <<>> THEN <<>>
    ELSE LET front == SortByKey_ties_reversed(SubSeq(list, 1, Len(list) - 1))
             x == list[Len(list)]
             before == {k \in 1..Len(front) : ~KeyLeq(x, front[k])}
             at == IF before = {} THEN 0 ELSE MaxOf(before)
         IN  SubSeq(front, 1, at) \o <<x>> \o SubSeq(front, at + 1, Len(front))

\* a sort whose key is the severity rank alone
RECURSIVE SortByKey_severity_only(_)
SortByKey_severity_only(list) ==
    IF list = <<>> THEN <<>>
    ELSE LET front == SortByKey_severity_only(SubSeq(list, 1, Len(list) - 1))
             x == list[Len(list)]
             before == {k \in 1..Len(front) :
                           severity_order(front[k].severity) <= severity_order(x.severity)}
             at == IF before = {} THEN 0 ELSE MaxOf(before)
         IN  SubSeq(front, 1, at) \o <<x>> \o SubSeq(front, at + 1, Len(front))

\* list.sort(key=...): a stable sort, here by insertion after the last entry
\* whose key is not greater
RECURSIVE SortByKey(_)
SortByKey(list) ==
    IF list = <<>> THEN <<>>
    ELSE LET front == SortByKey(SubSeq(list, 1, Len(list) - 1))
             x == list[Len(list)]
             before == {k \in 1..Len(front) : KeyLeq(front[k], x)}
             at == IF before = {} THEN 0 ELSE MaxOf(before)
         IN  SubSeq(front, 1, at) \o <<x>> \o SubSeq(front, at + 1, Len(front))

\* ids handed out in generation order, before the sort
_prioritize_ids_first(list) ==
    SortByKey([k \in 1..Len(list) |-> [list[k] EXCEPT !.id = k]])

_prioritize_contradictions(list) ==
    LET sorted == SortByKey(list)
    IN  [k \in 1..Len(sorted) |-> [sorted[k] EXCEPT !.id = k]]

\* the loop over clause_groups.items(): the contradictions of the groups from g on
RECURSIVE GroupContradictions(_, _, _)
GroupContradictions(rules_table, groups, g) ==
    IF g > Len(groups) THEN <<>>
    ELSE (IF Len(groups[g].instances) >= 2
          THEN _detect_clause_contradictions(rules_table, groups[g].clause_type,
                                             groups[g].instances)
          ELSE <<>>)
         \o GroupContradictions(rules_table, groups, g + 1)

\* ghost: how many times that loop calls _compare_clause_values
RECURSIVE GroupComparisons(_, _)
GroupComparisons(groups, g) ==
    IF g > Len(groups) THEN 0
    ELSE (IF Len(groups[g].instances) >= 2
          THEN Len(ComparedPairs(Len(groups[g].instances)))
          ELSE 0)
         + GroupComparisons(groups, g + 1)

\* no early return, no group-size test, and an inner loop that starts at i
RECURSIVE SelfPairsFrom(_, _, _)
SelfPairsFrom(n, i, j) ==
    IF i > n THEN <<>>
    ELSE IF j > n THEN SelfPairsFrom(n, i + 1, i + 1)
    ELSE << <<i, j>> >> \o SelfPairsFrom(n, i, j + 1)

RECURSIVE UnguardedContradictions(_, _, _)
UnguardedContradictions(rules_table, groups, g) ==
    IF g > Len(groups) THEN <<>>
    ELSE LET inst == groups[g].instances
             rules == rules_get(rules_table, groups[g].clause_type)
             found == SelectSeq(SelfPairsFrom(Len(inst), 1, 1),
                                LAMBDA p : _compare_clause_values(
                                               inst[p[1]].value, inst[p[2]].value,
                                               rules.comparison_type).differs)
         IN  [k \in 1..Len(found) |->
                 [id |-> 0, clause_type |-> groups[g].clause_type,
                  severity |-> rules.severity, description |-> rules.description,
                  documents |->
                      << [filename |-> inst[found[k][1]].filename,
                          doc_id |-> inst[found[k][1]].doc_id,
                          value |-> inst[found[k][1]].value,
                          pos |-> inst[found[k][1]].pos],
                         [filename |-> inst[found[k][2]].filename,
                          doc_id |-> inst[found[k][2]].doc_id,
                          value |-> inst[found[k][2]].value,
                          pos |-> inst[found[k][2]].pos] >>,
                  details |-> _compare_clause_values(
                                  inst[found[k][1]].value, inst[found[k][2]].value,
                                  rules.comparison_type).details]]
             \o UnguardedContradictions(rules_table, groups, g + 1)

RECURSIVE UnguardedComparisons(_, _)
UnguardedComparisons(groups, g) ==
    IF g > Len(groups) THEN 0
    ELSE Len(SelfPairsFrom(Len(groups[g].instances), 1, 1))
         + UnguardedComparisons(groups, g + 1)

detect_contradictions_unguarded(rules_table, documents_) ==
    LET clause_groups == _group_clauses_by_type(documents_)
    IN  [contradictions |->
             _prioritize_contradictions(
                 UnguardedContradictions(rules_table, clause_groups, 1)),
         comparisons |-> UnguardedComparisons(clause_groups, 1)]

\* neither detect_contradictions nor _detect_clause_contradictions has a
\* handler: an exception that leaves _compare_clause_values for some compared
\* pair leaves detect_contradictions
UncaughtException(rules_table, groups) ==
    \E g \in 1..Len(groups) :
        /\ Len(groups[g].instances) >= 2
        /\ \E k \in 1..Len(ComparedPairs(Len(groups[g].instances))) :
              LET pair == ComparedPairs(Len(groups[g].instances))[k]
              IN  Raised(_compare_clause_values(
                             groups[g].instances[pair[1]].value,
                             groups[g].instances[pair[2]].value,
                             rules_get(rules_table, groups[g].clause_type).comparison_type))

detect_contradictions(rules_table, documents_) ==
    IF Len(documents_) < 2
    THEN [contradictions |-> <<>>, comparisons |-> 0]
    ELSE LET clause_groups == _group_clauses_by_type(documents_)
         IN  IF UncaughtException(rules_table, clause_groups)
             THEN Raise("Exception")
             ELSE [contradictions |->
                       _prioritize_contradictions(
                           GroupContradictions(rules_table, clause_groups, 1)),
                   comparisons |-> GroupComparisons(clause_groups, 1)]

----------------------------------------------------------------------------
(* The inputs: clause values, clause maps and file names *)

MaxDocs == 3

StrValue(t) == [kind |-> "str", text |-> t]

ListValue(items) == [kind |-> "list", items |-> items]

Clause(clause_type, value) == [clause_type |-> clause_type, value |-> value]

\* values handed directly to the comparators
ValuePool ==
    { StrValue(<<"$","7","5",",","0","0","0">>), StrValue(<<"$","8","5",",","0","0","0">>), StrValue(<<"7","5","K">>),
      StrValue(<<"7","5","0","0","0">>), StrValue(<<"7",".","5","k">>), StrValue(<<"$","7","5",",","0","0","0",".","5","0">>),
      StrValue(<<"T","B","D">>), StrValue(<<"t","b","d">>), StrValue(<<" ","t","b","d"," ">>),
      StrValue(<<"3","0"," ","d","a","y","s">>), StrValue(<<"2"," ","w","e","e","k","s">>), StrValue(<<"1"," ","m","o","n","t","h">>),
      StrValue(<<"1","4"," ","D","a","y","s">>), StrValue(<<"a","s","a","p">>), StrValue(<<"A","S","A","P">>),
      StrValue(<<"9"," ","A","M"," ","t","o"," ","5"," ","P","M">>), StrValue(<<"8"," ","A","M"," ","t","o"," ","6"," ","P","M">>),
      StrValue(<<"9","a","m","-","5","p","m">>), StrValue(<<"1","2"," ","A","M"," ","t","o"," ","1","2"," ","P","M">>),
      StrValue(<<"9",":","0","0"," ","A","M"," ","t","o"," ","5",":","0","0"," ","P","M">>),
      StrValue(<<"t","e","r","m","i","n","a","t","e"," ","w","i","t","h"," ","c","a","u","s","e">>), StrValue(<<"t","e","r","m","i","n","a","t","e"," ","w","i","t","h","o","u","t"," ","c","a","u","s","e">>),
      StrValue(<<"e","i","t","h","e","r"," ","p","a","r","t","y"," ","m","a","y"," ","t","e","r","m","i","n","a","t","e">>), StrValue(<<"e","m","p","l","o","y","e","r"," ","o","n","l","y">>),
      StrValue(<<"i","m","m","e","d","i","a","t","e"," ","d","i","s","m","i","s","s","a","l">>), StrValue(<<"3","0"," ","d","a","y","s"," ","n","o","t","i","c","e">>),
      StrValue(<<"M","a","r","c","h"," ","1",","," ","2","0","2","4">>), StrValue(<<"m","a","r","c","h"," "," ","1",","," ","2","0","2","4">>),
      StrValue(<<>>),
      ListValue(<<<<"$","7","5",",","0","0","0">>>>), ListValue(<<<<"J","a","n"," ","1">>, <<"F","e","b"," ","2">>>>),
      ListValue(<<<<"f","e","b"," ","2">>, <<"j","a","n"," ","1">>>>), ListValue(<<<<"J","a","n"," ","1">>>>),
      ListValue(<<>>) }

Document(filename, clauses) ==
    [filename |-> filename, doc_id |-> NoDocId, clauses |-> clauses]

\* a number one digit longer than int() converts
LongDigits == [k \in 1..(int_max_str_digits + 1) |-> "1"]

\* parsed documents, each clause map in the insertion order of its dict; two of
\* them carry the same filename
DocumentPool ==
    { Document("contract1.pdf",
        << Clause("working_hours", StrValue(<<"9"," ","A","M"," ","t","o"," ","5"," ","P","M">>)),
           Clause("salary", StrValue(<<"$","7","5",",","0","0","0">>)),
           Clause("notice_period", StrValue(<<"3","0"," ","d","a","y","s">>)),
           Clause("termination_clause", StrValue(<<"t","e","r","m","i","n","a","t","e"," ","w","i","t","h"," ","c","a","u","s","e">>)) >>),
      Document("contract2.pdf",
        << Clause("notice_period", StrValue(<<"2"," ","w","e","e","k","s">>)),
           Clause("salary", StrValue(<<"$","8","5",",","0","0","0">>)),
           Clause("working_hours", StrValue(<<"8"," ","A","M"," ","t","o"," ","6"," ","P","M">>)),
           Clause("bonus", StrValue(<<"1","0">>)) >>),
      Document("hr_policy.pdf",
        << Clause("salary", StrValue(<<"7","5","K">>)),
           Clause("termination_clause", StrValue(<<"t","e","r","m","i","n","a","t","e"," ","w","i","t","h","o","u","t"," ","c","a","u","s","e">>)),
           Clause("bonus", StrValue(<<"5">>)),
           Clause("deadline", StrValue(<<"M","a","r","c","h"," ","1">>)) >>),
      Document("empty.txt", << >>),
      Document("offer.docx",
        << Clause("salary", StrValue(<<"T","B","D">>)),
           Clause("important_dates", ListValue(<<<<"J","a","n"," ","1">>, <<"F","e","b"," ","2">>>>)),
           Clause("Probation", StrValue(<<"9","0"," ","d","a","y","s">>)),
           Clause("deadline", StrValue(<<"m","a","r","c","h"," "," ","1">>)) >>),
      Document("offer_v2.docx",
        << Clause("salary", StrValue(<<"t","b","d">>)),
           Clause("important_dates", ListValue(<<<<"f","e","b"," ","2">>>>)),
           Clause("Probation", StrValue(<<"3"," ","m","o","n","t","h","s">>)) >>),
      Document("contract1.pdf",
        << Clause("salary", StrValue(<<"$","7","5",",","0","0","0">>)),
           Clause("working_hours", StrValue(<<"9","a","m","-","5","p","m">>)),
           Clause("bonus", StrValue(<<"1","0">>)) >>),
      Document("addendum.txt",
        << Clause("notice_period", StrValue(LongDigits \o <<" ","d","a","y","s">>)),
           Clause("salary", StrValue(<<"7","5","0","0","0">>)) >>) }

\* DatabaseManager.initialize_database on a new file: empty tables, unused
\* AUTOINCREMENT sequences
initialize_database ==
    [documents |-> <<>>, contradictions |-> <<>>, doc_seq |-> 0, con_seq |-> 0]

----------------------------------------------------------------------------
(* The state machine *)

Init ==
    /\ documents = <<>>
    /\ contradictions = <<>>
    /\ comparisons = 0
    /\ pc = "input"
    /\ contradiction_rules = _setup_contradiction_rules
    /\ cmp = [called |-> FALSE]
    /\ run = [called |-> FALSE]
    /\ db = initialize_database
    /\ prs = [called |-> FALSE]
    /\ call = [called |-> FALSE]

\* the caller adds one parsed document to the batch
AddDocument(doc) ==
    /\ pc = "input"
    /\ Len(documents) < MaxDocs
    /\ documents' = Append(documents, doc)
    /\ UNCHANGED <<contradictions, comparisons, pc, contradiction_rules, cmp>>
    /\ UNCHANGED pipeVars

\* the call ends: it returns its list, or an exception reaches the caller
Return(outcome) ==
    IF Raised(outcome)
    THEN /\ pc' = "raised"
         /\ UNCHANGED <<contradictions, comparisons>>
    ELSE /\ pc' = "done"
         /\ contradictions' = outcome.contradictions
         /\ comparisons' = outcome.comparisons

\* a call that enters the default rule of each clause type it meets into the table
DetectContradictions_setdefault ==
    /\ pc = "input"
    /\ Return(detect_contradictions(contradiction_rules, documents))
    /\ contradiction_rules' =
           [clause_type \in DOMAIN contradiction_rules
                            \cup UNION {{documents[d].clauses[k].clause_type :
                                            k \in 1..Len(documents[d].clauses)} :
                                        d \in 1..Len(documents)} |->
               rules_get(contradiction_rules, clause_type)]
    /\ UNCHANGED <<documents, cmp>>
    /\ UNCHANGED pipeVars

\* detector.detect_contradictions(documents)
DetectContradictions ==
    /\ pc = "input"
    /\ Return(detect_contradictions(contradiction_rules, documents))
    /\ UNCHANGED <<documents, contradiction_rules, cmp>>
    /\ UNCHANGED pipeVars

\* the caller starts over with an empty batch
NewBatch ==
    /\ pc \in {"done", "raised"}
    /\ documents' = <<>>
    /\ contradictions' = <<>>
    /\ comparisons' = 0
    /\ pc' = "input"
    /\ UNCHANGED <<contradiction_rules, cmp>>
    /\ UNCHANGED pipeVars

Next ==
    \/ \E doc \in DocumentPool : AddDocument(doc)
    \/ DetectContradictions
    \/ NewBatch

Spec == Init /\ [][Next]_vars

\* a direct call of _compare_clause_values, and the same call with the values swapped
CompareClauseValues(value1, value2, comparison_type) ==
    /\ ~cmp.called
    /\ cmp' = [called |-> TRUE,
               comparison_type |-> comparison_type,
               value1 |-> value1,
               value2 |-> value2,
               result |-> _compare_clause_values(value1, value2, comparison_type),
               swapped |-> _compare_clause_values(value2, value1, comparison_type)]
    /\ UNCHANGED detVars
    /\ UNCHANGED pipeVars

\* the caller drops the result before its next call
ForgetComparison ==
    /\ cmp.called
    /\ cmp' = [called |-> FALSE]
    /\ UNCHANGED detVars
    /\ UNCHANGED pipeVars

NextCompare ==
    \/ \E value1 \in ValuePool, value2 \in ValuePool, comparison_type \in ComparisonTypes :
           CompareClauseValues(value1, value2, comparison_type)
    \/ ForgetComparison

SpecCompare == Init /\ [][NextCompare]_vars

----------------------------------------------------------------------------
(* ClauseParser (nlp/clause_parser.py): the text normalizer, the notice-period *)
(* extractor and the post-processing of the clause map                        *)

\* \w of the re module on the characters of the texts
WordChars ==
    {UpperChars[k] : k \in 1..26} \cup {LowerChars[k] : k \in 1..26} \cup DigitSet \cup {"_"}

\* the literal w matches s at i, case-sensitively
MatchAt(s, i, w) ==
    /\ i + Len(w) - 1 <= Len(s)
    /\ \A k \in 1..Len(w) : s[i + k - 1] = w[k]

\* re.sub(r'\s+', ' ', s): the first character of each run of whitespace
\* stays, as a space, and the rest of the run goes
IsKept(marked) == marked.kept

sub_whitespace(s) ==
    LET marked == [i \in 1..Len(s) |->
                      [c |-> IF s[i] \in SpaceSet THEN " " ELSE s[i],
                       kept |-> \/ s[i] \notin SpaceSet
                                \/ i = 1
                                \/ s[i - 1] \notin SpaceSet]]
        run_heads == SelectSeq(marked, IsKept)
    IN  [k \in 1..Len(run_heads) |-> run_heads[k].c]

\* '--- Page \d+ ---' matches at i: the index of its last character (0: no match)
PageSeparatorEnd(s, i) ==
    IF ~MatchAt(s, i, <<"-","-","-"," ","P","a","g","e"," ">>) THEN 0
    ELSE LET e == RunEnd(s, i + 9, DigitSet)
         IN  IF e >= i + 9 /\ MatchAt(s, e + 1, <<" ","-","-","-">>) THEN e + 4 ELSE 0

\* re.sub(r'--- Page \d+ ---', '', s) from position i on: the matches are
\* taken left to right and the text after a match is scanned from its end
RECURSIVE SubPageSeparatorsFrom(_, _)
SubPageSeparatorsFrom(s, i) ==
    IF i > Len(s) THEN <<>>
    ELSE IF PageSeparatorEnd(s, i) # 0
    THEN SubPageSeparatorsFrom(s, PageSeparatorEnd(s, i) + 1)
    ELSE <<s[i]>> \o SubPageSeparatorsFrom(s, i + 1)

\* \bw\b matches at i under re.IGNORECASE (w is made of word characters)
WordAt(s, i, w) ==
    /\ MatchCI(s, i, w)
    /\ i = 1 \/ s[i - 1] \notin WordChars
    /\ i + Len(w) > Len(s) \/ s[i + Len(w)] \notin WordChars

\* re.sub(r'\b(word|num)\b', num, s, flags=re.IGNORECASE) from position i on
RECURSIVE SubNumberWordFrom(_, _, _, _)
SubNumberWordFrom(s, i, word, num) ==
    IF i > Len(s) THEN <<>>
    ELSE IF WordAt(s, i, word)
    THEN num \o SubNumberWordFrom(s, i + Len(word), word, num)
    ELSE IF WordAt(s, i, num)
    THEN num \o SubNumberWordFrom(s, i + Len(num), word, num)
    ELSE <<s[i]>> \o SubNumberWordFrom(s, i + 1, word, num)

sub_number_words(s) ==
    SubNumberWordFrom(
        SubNumberWordFrom(
            SubNumberWordFrom(
                SubNumberWordFrom(s, 1, <<"t","h","i","r","t","y">>, <<"3","0">>),
                1, <<"s","i","x","t","y">>, <<"6","0">>),
            1, <<"n","i","n","e","t","y">>, <<"9","0">>),
        1, <<"f","o","u","r","t","e","e","n">>, <<"1","4">>)

_clean_text(text) ==
    str_strip(sub_number_words(SubPageSeparatorsFrom(sub_whitespace(text), 1)))

\* the unit word of (days?|weeks?|months?) at i, after .lower().rstrip('s')
UnitAt(s, i) ==
    IF MatchCI(s, i, <<"d","a","y">>) THEN <<"d","a","y">>
    ELSE IF MatchCI(s, i, <<"w","e","e","k">>) THEN <<"w","e","e","k">>
    ELSE <<"m","o","n","t","h">>

\* the fallback for written numbers: the first word of the dict that the text
\* contains together with a unit decides
RECURSIVE WrittenNumber(_, _, _)
WrittenNumber(text, words, k) ==
    IF k > Len(words) THEN str_strip(text)
    ELSE IF ~str_contains(str_lower(text), words[k].word)
    THEN WrittenNumber(text, words, k + 1)
    ELSE IF str_contains(str_lower(text), <<"d","a","y">>) THEN words[k].num \o <<" ","d","a","y","s">>
    ELSE IF str_contains(str_lower(text), <<"w","e","e","k">>) THEN words[k].num \o <<" ","w","e","e","k","s">>
    ELSE IF str_contains(str_lower(text), <<"m","o","n","t","h">>) THEN words[k].num \o <<" ","m","o","n","t","h","s">>
    ELSE WrittenNumber(text, words, k + 1)

written_numbers ==
    << [word |-> <<"f","o","u","r","t","e","e","n">>, num |-> <<"1","4">>], [word |-> <<"t","h","i","r","t","y">>, num |-> <<"3","0">>],
       [word |-> <<"s","i","x","t","y">>, num |-> <<"6","0">>], [word |-> <<"n","i","n","e","t","y">>, num |-> <<"9","0">>] >>

\* ('s' if int(number) > 1 else '')
PluralSuffix(number) == IF IntOf(number) > 1 THEN <<"s">> ELSE <<>>

\* the str returned, or the exception int() raises
_extract_notice_period(text) ==
    IF ~\E i \in 1..Len(text) : DurationMatchAt(text, i)
    THEN StrValue(WrittenNumber(text, written_numbers, 1))
    ELSE LET i == CHOOSE i \in 1..Len(text) :
                      /\ DurationMatchAt(text, i)
                      /\ \A j \in 1..(i - 1) : ~DurationMatchAt(text, j)
             e == RunEnd(text, i, DigitSet)
             w == RunEnd(text, e + 1, SpaceSet)
         IN  IF e - i + 1 > int_max_str_digits THEN Raise("ValueError")
             ELSE StrValue(SubSeq(text, i, e) \o <<" ">> \o UnitAt(text, w + 1)
                           \o PluralSuffix(SubSeq(text, i, e)))

min_value_len == 2

max_value_len == 200

\* a str value after strip() and re.sub(r'\s+', ' ', value)
CleanedValue(text) == sub_whitespace(str_strip(text))

\* [v.strip() for v in value if v.strip() and len(v.strip()) > 2]
RECURSIVE cleaned_list(_)
cleaned_list(items) ==
    IF items = <<>> THEN <<>>
    ELSE IF str_strip(Head(items)) # <<>> /\ Len(str_strip(Head(items))) > 2
    THEN <<str_strip(Head(items))>> \o cleaned_list(Tail(items))
    ELSE cleaned_list(Tail(items))

\* the loop body without the length test
Processed_any_length(clause) ==
    IF clause.value.kind = "str"
    THEN << Clause(clause.clause_type, StrValue(CleanedValue(clause.value.text))) >>
    ELSE IF cleaned_list(clause.value.items) # <<>>
    THEN << Clause(clause.clause_type, ListValue(cleaned_list(clause.value.items))) >>
    ELSE <<>>

\* the loop body for one item of the dict: what it adds to processed
Processed(clause) ==
    IF clause.value.kind = "str"
    THEN IF \/ Len(CleanedValue(clause.value.text)) < min_value_len
            \/ Len(CleanedValue(clause.value.text)) > max_value_len
         THEN <<>>
         ELSE << Clause(clause.clause_type, StrValue(CleanedValue(clause.value.text))) >>
    ELSE IF cleaned_list(clause.value.items) # <<>>
    THEN << Clause(clause.clause_type, ListValue(cleaned_list(clause.value.items))) >>
    ELSE <<>>

RECURSIVE _post_process_clauses(_)
_post_process_clauses(clauses) ==
    IF clauses = <<>> THEN <<>>
    ELSE Processed(Head(clauses)) \o _post_process_clauses(Tail(clauses))

----------------------------------------------------------------------------
(* Calls of the parser's functions *)

MaxFragments == 3

MaxItems == 2

TextFragments ==
    { <<"-","-","-"," ","P","a","g","e"," ","1"," ","-","-","-">>, <<" ","-","-","-"," ","P","a","g","e"," ","1","2"," ","-","-","-"," ">>, <<" ">>, <<"\n">>, <<"T","h","i","r","t","y">>, <<"a">> }

\* the texts made of n fragments
RECURSIVE TextsOf(_)
TextsOf(n) ==
    IF n = 0 THEN {<<>>}
    ELSE {fragment \o text : fragment \in TextFragments, text \in TextsOf(n - 1)}

TextPool == UNION {TextsOf(n) : n \in 0..MaxFragments}

\* matches of the notice_period patterns, and texts with a written number
NoticePool ==
    {number \o <<" ">> \o unit \o tail :
        number \in { <<"0">>, <<"1">>, <<"2">>, <<"0","1">>, <<"3","0">> },
        unit \in { <<"d","a","y">>, <<"d","a","y","s">>, <<"W","e","e","k">>, <<"w","e","e","k","s">>, <<"m","o","n","t","h">>, <<"M","O","N","T","H","S">> },
        tail \in { <<" ","n","o","t","i","c","e">>, <<" ","n","o","t","i","c","e"," ","p","e","r","i","o","d">> }}
    \cup { <<"n","o","t","i","c","e"," ","p","e","r","i","o","d"," ","o","f"," ","1"," ","m","o","n","t","h","s">>, <<"n","o","t","i","c","e"," ","p","e","r","i","o","d"," ","o","f"," ","0"," ","w","e","e","k","s">>,
           <<"t","h","i","r","t","y"," ","d","a","y","s"," ","n","o","t","i","c","e">>, <<"S","i","x","t","y"," ","d","a","y"," ","n","o","t","i","c","e">>, <<"n","i","n","e","t","y">>,
           <<" ","n","o","t","i","c","e"," ">>, LongDigits \o <<" ","d","a","y","s"," ","n","o","t","i","c","e">> }

Pad(n) == [k \in 1..n |-> "x"]

\* str values around the two limits, before strip() and the collapse
StrPool ==
    { Pad(0), Pad(min_value_len - 1), Pad(min_value_len), Pad(min_value_len + 1),
      Pad(max_value_len - 1), Pad(max_value_len), Pad(max_value_len + 1),
      <<" ">> \o Pad(min_value_len - 1) \o <<"\n">>,
      <<" ">> \o Pad(max_value_len) \o <<" ">>,
      Pad(max_value_len - 1) \o <<" ", "\n">> \o Pad(1),
      Pad(max_value_len - 1) \o <<" ", " ">> \o Pad(2) }

ItemPool == { <<"a","b">>, <<"a","b","c">>, <<" ","a","b"," ">>, <<" "," ">>, <<" ","1","/","2","/","2","0","0","3">> }

RECURSIVE ListsOf(_)
ListsOf(n) ==
    IF n = 0 THEN {<<>>}
    ELSE {<<item>> \o items : item \in ItemPool, items \in ListsOf(n - 1)}

ListPool == UNION {ListsOf(n) : n \in 1..MaxItems}

\* clause maps as _parse_with_regex builds them
ClausesPool ==
    { << Clause("deadline", StrValue(text)) >> : text \in StrPool }
    \cup { << Clause("termination_clause", StrValue(text)),
              Clause("important_dates", ListValue(items)) >> :
           text \in StrPool, items \in ListPool }

\* cleaned_text = self._clean_text(text)
CleanText(text) ==
    /\ ~prs.called
    /\ prs' = [called |-> TRUE, op |-> "_clean_text", pass |-> 1,
               text |-> text, output |-> _clean_text(text)]
    /\ UNCHANGED <<run, db, cmp, call>>
    /\ UNCHANGED detVars

\* the cleaned text is cleaned again
CleanAgain ==
    /\ prs.called
    /\ prs.op = "_clean_text"
    /\ prs.pass = 1
    /\ prs' = [called |-> TRUE, op |-> "_clean_text", pass |-> 2,
               text |-> prs.output, output |-> _clean_text(prs.output)]
    /\ UNCHANGED <<run, db, cmp, call>>
    /\ UNCHANGED detVars

\* clauses[clause_type] = self._extract_notice_period(raw_match)
ExtractNoticePeriod(text) ==
    /\ ~prs.called
    /\ prs' = [called |-> TRUE, op |-> "_extract_notice_period",
               text |-> text,
               output |-> _extract_notice_period(text)]
    /\ UNCHANGED <<run, db, cmp, call>>
    /\ UNCHANGED detVars

\* clauses = self._post_process_clauses(clauses)
PostProcessClauses(clauses) ==
    /\ ~prs.called
    /\ prs' = [called |-> TRUE, op |-> "_post_process_clauses",
               clauses |-> clauses, output |-> _post_process_clauses(clauses)]
    /\ UNCHANGED <<run, db, cmp, call>>
    /\ UNCHANGED detVars

\* the caller is done with the value
TakeParsed ==
    /\ prs.called
    /\ prs' = [called |-> FALSE]
    /\ UNCHANGED <<run, db, cmp, call>>
    /\ UNCHANGED detVars

NextParser ==
    \/ \E text \in TextPool : CleanText(text)
    \/ CleanAgain
    \/ \E text \in NoticePool : ExtractNoticePeriod(text)
    \/ \E clauses \in ClausesPool : PostProcessClauses(clauses)
    \/ TakeParsed

SpecParser == Init /\ [][NextParser]_vars

----------------------------------------------------------------------------
(* process_documents (main.py) with its collaborators: the extractor and the *)
(* parser by what they return or raise for the files of a batch, the        *)
(* database by its two tables.                                              *)

MaxRows == 3

\* the key "error" is absent from the dict
NoError == ""

Text(text) == [text |-> text]

Clauses(clauses) == [clauses |-> clauses]

\* a file of the batch: its path and what DocumentExtractor.extract_text does with it
File(file_path, filename, extracted) ==
    [file_path |-> file_path, filename |-> filename, extracted |-> extracted]

FilePool ==
    { File("/docs/contract1.pdf", "contract1.pdf", Text(<<"S","a","l","a","r","y"," ","$","7","5",",","0","0","0","."," ","3","0"," ","d","a","y","s"," ","n","o","t","i","c","e",".">>)),
      File("/docs/contract2.pdf", "contract2.pdf", Text(<<"2"," ","w","e","e","k","s"," ","n","o","t","i","c","e","."," ","S","a","l","a","r","y"," ","o","f"," ","$","8","5",",","0","0","0",".">>)),
      File("/docs/empty.txt", "empty.txt", Text(<<" ", "\n">>)),
      File("/docs/missing.pdf", "missing.pdf", Raise("FileNotFoundError")),
      File("/docs/ledger.txt", "ledger.txt", Text(LongDigits \o <<" ","d","a","y","s"," ","n","o","t","i","c","e">>)) }

\* self.extractor.extract_text(file_path)
extract_text(file) == file.extracted

\* the first match of each clause type that re.finditer finds in the cleaned
\* text of a file, in the order of regex_patterns (_clean_text leaves the texts
\* of the pool as they are)
first_matches(text) ==
    CASE text = <<"S","a","l","a","r","y"," ","$","7","5",",","0","0","0","."," ","3","0"," ","d","a","y","s"," ","n","o","t","i","c","e",".">> ->
             << Clause("notice_period", StrValue(<<"3","0"," ","d","a","y","s"," ","n","o","t","i","c","e">>)),
                Clause("salary", StrValue(<<"$","7","5",",","0","0","0">>)) >>
      [] text = <<"2"," ","w","e","e","k","s"," ","n","o","t","i","c","e","."," ","S","a","l","a","r","y"," ","o","f"," ","$","8","5",",","0","0","0",".">> ->
             << Clause("notice_period", StrValue(<<"2"," ","w","e","e","k","s"," ","n","o","t","i","c","e">>)),
                Clause("salary", StrValue(<<"$","8","5",",","0","0","0">>)) >>
      [] text = LongDigits \o <<" ","d","a","y","s"," ","n","o","t","i","c","e">> ->
             << Clause("notice_period", StrValue(LongDigits \o <<" ","d","a","y","s"," ","n","o","t","i","c","e">>)) >>

\* clauses[clause_type] for one raw match
Extracted(clause) ==
    IF clause.clause_type = "notice_period"
    THEN _extract_notice_period(clause.value.text)
    ELSE clause.value

\* the dict of the raw matches after the extractors, or the exception of one
ExtractAll(matches) ==
    IF \E k \in 1..Len(matches) : Raised(Extracted(matches[k]))
    THEN Raise("ValueError")
    ELSE Clauses([k \in 1..Len(matches) |->
                     Clause(matches[k].clause_type, Extracted(matches[k]))])

_parse_with_regex(text) == ExtractAll(first_matches(text))

\* the last step of parse_clauses
PostProcessed(outcome) ==
    IF Raised(outcome) THEN outcome
    ELSE Clauses(_post_process_clauses(outcome.clauses))

\* self.parser.parse_clauses(text), spaCy not installed (self.nlp is None)
parse_clauses(text) == PostProcessed(_parse_with_regex(text))

\* the persistence failures of one call: the doc-th call of store_document
\* and the con-th call of store_contradiction raise (0: none does)
FaultPool == [doc : 0..2, con : 0..1]

\* step 1: the entry of extracted_texts for one file
ExtractedText(file) ==
    IF Raised(extract_text(file))
    THEN [file_path |-> file.file_path, filename |-> file.filename, text |-> <<>>,
          status |-> "failed", error |-> extract_text(file).raised]
    ELSE [file_path |-> file.file_path, filename |-> file.filename,
          text |-> extract_text(file).text, status |-> "success", error |-> NoError]

\* doc_result of a parsed document; doc_id stays NoDocId until store_document returns
DocResult(doc_data, clauses, doc_id) ==
    [filename |-> doc_data.filename, file_path |-> doc_data.file_path,
     clauses |-> clauses, status |-> "success", doc_id |-> doc_id, error |-> NoError]

\* doc_result of the except branch of step 2
FailedResult(doc_data, error) ==
    [filename |-> doc_data.filename, file_path |-> doc_data.file_path,
     clauses |-> <<>>, status |-> "failed", doc_id |-> NoDocId, error |-> error]

\* DatabaseManager.store_document: the row it inserts; lastrowid is doc_seq + 1
store_document(database, filename, file_path, clauses) ==
    [database EXCEPT
        !.documents = Append(@, [id |-> database.doc_seq + 1, filename |-> filename,
                                 file_path |-> file_path, clauses |-> clauses]),
        !.doc_seq = @ + 1]

\* DatabaseManager.store_contradiction
store_contradiction(database, contradiction) ==
    [database EXCEPT
        !.contradictions = Append(@, [id |-> database.con_seq + 1,
                                      clause_type |-> contradiction.clause_type,
                                      documents |-> contradiction.documents,
                                      severity |-> contradiction.severity,
                                      details |-> contradiction.details]),
        !.con_seq = @ + 1]

\* step 2 for a text that is not blank, given what parse_clauses did with it.
\* doc_result joins both lists before store_document is called, and the two
\* lists share the dict, so the doc_id set afterwards shows in both.
AfterParse(acc, doc_data, faults, outcome) ==
    IF Raised(outcome)
    THEN [acc EXCEPT !.documents = Append(@, FailedResult(doc_data, outcome.raised))]
    ELSE IF faults.doc = acc.stores + 1
    THEN [acc EXCEPT
             !.parsed_documents = Append(@, DocResult(doc_data, outcome.clauses, NoDocId)),
             !.documents = @ \o << DocResult(doc_data, outcome.clauses, NoDocId),
                                   FailedResult(doc_data, "OperationalError") >>,
             !.stores = @ + 1]
    ELSE [acc EXCEPT
             !.parsed_documents =
                 Append(@, DocResult(doc_data, outcome.clauses, acc.db.doc_seq + 1)),
             !.documents =
                 Append(@, DocResult(doc_data, outcome.clauses, acc.db.doc_seq + 1)),
             !.db = store_document(@, doc_data.filename, doc_data.file_path,
                                   outcome.clauses),
             !.stores = @ + 1]

\* one pass of the loop of step 2
ParseStep(acc, doc_data, faults) ==
    IF doc_data.status = "success" /\ str_strip(doc_data.text) # <<>>
    THEN AfterParse(acc, doc_data, faults, parse_clauses(doc_data.text))
    ELSE acc

\* steps 1 and 2 over the first k files
RECURSIVE ParseLoop(_, _, _, _)
ParseLoop(file_paths, k, faults, database) ==
    IF k = 0
    THEN [parsed_documents |-> <<>>, documents |-> <<>>, db |-> database, stores |-> 0]
    ELSE ParseStep(ParseLoop(file_paths, k - 1, faults, database),
                   ExtractedText(file_paths[k]), faults)

\* the loop over the contradictions: the first n are stored
RECURSIVE StoreContradictions(_, _, _)
StoreContradictions(database, list, n) ==
    IF n = 0 THEN database
    ELSE store_contradiction(StoreContradictions(database, list, n - 1), list[n])

Summary(file_paths, total_contradictions, processing_status, error) ==
    [total_documents |-> Len(file_paths), total_contradictions |-> total_contradictions,
     processing_status |-> processing_status, error |-> error]

\* an outer handler that lets the exception go on to the caller
ErrorResult_reraise(file_paths, database, error, detected) ==
    [results |-> Raise(error), db |-> database, detected |-> detected]

\* the outer except: the fixed result, and the database as the failure left it
ErrorResult(file_paths, database, error, detected) ==
    [results |-> [documents |-> <<>>, contradictions |-> <<>>,
                  summary |-> Summary(file_paths, 0, "error", error)],
     db |-> database,
     detected |-> detected]

\* step 3 after detect_contradictions was called
AfterDetection(acc, file_paths, faults, outcome) ==
    IF Raised(outcome)
    THEN ErrorResult(file_paths, acc.db, outcome.raised, TRUE)
    ELSE IF faults.con # 0 /\ faults.con <= Len(outcome.contradictions)
    THEN ErrorResult(file_paths,
                     StoreContradictions(acc.db, outcome.contradictions, faults.con - 1),
                     "OperationalError", TRUE)
    ELSE [results |-> [documents |-> acc.documents,
                       contradictions |-> outcome.contradictions,
                       summary |-> Summary(file_paths, Len(outcome.contradictions),
                                           "success", NoError)],
          db |-> StoreContradictions(acc.db, outcome.contradictions,
                                     Len(outcome.contradictions)),
          detected |-> TRUE]

\* step 3 with a threshold of three parsed documents
DetectStep_three(acc, file_paths, faults, rules_table) ==
    IF Len(acc.parsed_documents) >= 3
    THEN AfterDetection(acc, file_paths, faults,
                        detect_contradictions(rules_table, acc.parsed_documents))
    ELSE [results |-> [documents |-> acc.documents, contradictions |-> <<>>,
                       summary |-> Summary(file_paths, 0, "insufficient_documents",
                                           NoError)],
          db |-> acc.db,
          detected |-> FALSE]

\* step 3
DetectStep(acc, file_paths, faults, rules_table) ==
    IF Len(acc.parsed_documents) >= 2
    THEN AfterDetection(acc, file_paths, faults,
                        detect_contradictions(rules_table, acc.parsed_documents))
    ELSE [results |-> [documents |-> acc.documents, contradictions |-> <<>>,
                       summary |-> Summary(file_paths, 0, "insufficient_documents",
                                           NoError)],
          db |-> acc.db,
          detected |-> FALSE]

\* what the call returns, the database it leaves, and (ghost) whether it
\* called detect_contradictions
process_documents(file_paths, faults, rules_table, database) ==
    DetectStep(ParseLoop(file_paths, Len(file_paths), faults, database),
               file_paths, faults, rules_table)

\* the call returns to its caller
Returns(file_paths, faults, outcome) ==
    /\ run' = [called |-> TRUE,
               file_paths |-> [k \in 1..Len(file_paths) |-> file_paths[k].file_path],
               faults |-> faults,
               results |-> outcome.results, detected |-> outcome.detected,
               db_before |-> db]
    /\ db' = outcome.db

\* checker.process_documents(file_paths), called on cleared tables
ProcessDocuments(file_paths, faults) ==
    /\ ~run.called
    /\ db.documents = <<>> /\ db.contradictions = <<>>
    /\ db.doc_seq + Len(file_paths) <= MaxRows
    /\ Returns(file_paths, faults,
               process_documents(file_paths, faults, contradiction_rules, db))
    /\ UNCHANGED detVars
    /\ UNCHANGED <<cmp, prs, call>>

\* the caller is done with the result
TakeResult ==
    /\ run.called
    /\ run' = [called |-> FALSE]
    /\ UNCHANGED <<db, cmp, prs, call>>
    /\ UNCHANGED detVars

\* DatabaseManager.clear_all_data: the rows go, the id sequences stay
clear_all_data ==
    /\ ~run.called
    /\ db.documents # <<>> \/ db.contradictions # <<>>
    /\ db' = [db EXCEPT !.documents = <<>>, !.contradictions = <<>>]
    /\ UNCHANGED <<run, cmp, prs, call>>
    /\ UNCHANGED detVars

NextPipeline ==
    \/ \E n \in 0..MaxRows : \E file_paths \in [1..n -> FilePool] : \E faults \in FaultPool :
           ProcessDocuments(file_paths, faults)
    \/ TakeResult
    \/ clear_all_data

SpecPipeline == Init /\ [][NextPipeline]_vars

----------------------------------------------------------------------------
(* parse_clauses with the spaCy recognizer loaded: what the matcher finds is an *)
(* input, the merge of the two dicts and the post-processing are the code's    *)

\* key in dict
Contains(clauses, clause_type) ==
    \E k \in 1..Len(clauses) : clauses[k].clause_type = clause_type

\* dict[key]
ValueAt(clauses, clause_type) ==
    clauses[CHOOSE k \in 1..Len(clauses) : clauses[k].clause_type = clause_type].value

\* an update that keeps the value of a key the dict already has
dict_update_keep(clauses, other) ==
    clauses \o SelectSeq(other, LAMBDA c : ~Contains(clauses, c.clause_type))

\* clauses.update(other): a key of both gets the value of other and keeps its
\* place, a new key goes to the end
dict_update(clauses, other) ==
    [k \in 1..Len(clauses) |->
        IF Contains(other, clauses[k].clause_type)
        THEN Clause(clauses[k].clause_type, ValueAt(other, clauses[k].clause_type))
        ELSE clauses[k]]
    \o SelectSeq(other, LAMBDA c : ~Contains(clauses, c.clause_type))

\* parse_clauses from the two update calls on, self.nlp loaded
MergedClauses(spacy_clauses, outcome) ==
    IF Raised(outcome) THEN outcome
    ELSE Clauses(_post_process_clauses(
                     dict_update(dict_update(<<>>, spacy_clauses), outcome.clauses)))

\* the values _parse_with_spacy can give a clause type (<<>>: no match of its label)
SpacyValues(clause_type) ==
    CASE clause_type = "notice_period" ->
             {<<>>, << Clause("notice_period", StrValue(<<"3","0"," ","d","a","y","s">>)) >>,
              << Clause("notice_period", StrValue(<<"1"," ","m","o","n","t","h">>)) >>}
      [] clause_type = "working_hours" ->
             {<<>>, << Clause("working_hours", StrValue(<<"9"," ","A","M"," ","t","o"," ","5"," ","P","M">>)) >>}
      [] clause_type = "termination_clause" ->
             {<<>>, << Clause("termination_clause", StrValue(<<"e","i","t","h","e","r"," ","p","a","r","t","y"," ","m","a","y"," ","t","e","r","m","i","n","a","t","e">>)) >>}
      [] clause_type = "deadline" ->
             {<<>>, << Clause("deadline", StrValue(<<"M","a","r","c","h"," ","0","1",","," ","2","0","2","4">>)) >>,
              << Clause("deadline", StrValue(<<"x">>)) >>}

\* the dicts _parse_with_spacy returns
SpacyPool ==
    {n \o w \o t \o d : n \in SpacyValues("notice_period"),
                        w \in SpacyValues("working_hours"),
                        t \in SpacyValues("termination_clause"),
                        d \in SpacyValues("deadline")}

\* the texts of the files that extraction returns
FileTexts == {extract_text(file).text : file \in {f \in FilePool : ~Raised(extract_text(f))}}

\* parser.parse_clauses(text) on a text that is not blank, with the model loaded
\* and matching spacy_clauses
ParseClausesLoaded(text, spacy_clauses) ==
    /\ ~prs.called
    /\ str_strip(text) # <<>>
    /\ prs' = [called |-> TRUE, op |-> "parse_clauses", loaded |-> TRUE,
               spacy |-> spacy_clauses, regex |-> _parse_with_regex(text),
               output |-> MergedClauses(spacy_clauses, _parse_with_regex(text))]
    /\ UNCHANGED <<run, db, cmp, call>>
    /\ UNCHANGED detVars

\* parser.parse_clauses(text) with self.nlp None
ParseClausesRegexOnly(text) ==
    /\ ~prs.called
    /\ str_strip(text) # <<>>
    /\ prs' = [called |-> TRUE, op |-> "parse_clauses", loaded |-> FALSE,
               spacy |-> <<>>, regex |-> _parse_with_regex(text),
               output |-> parse_clauses(text)]
    /\ UNCHANGED <<run, db, cmp, call>>
    /\ UNCHANGED detVars

NextRecognizers ==
    \/ \E text \in FileTexts, spacy_clauses \in SpacyPool :
           ParseClausesLoaded(text, spacy_clauses)
    \/ \E text \in FileTexts : ParseClausesRegexOnly(text)
    \/ TakeParsed

SpecRecognizers == Init /\ [][NextRecognizers]_vars

----------------------------------------------------------------------------
(* generate_contradiction_report: the two defaultdict(int) tallies as lists of *)
(* keys with their counts, in insertion order                                  *)

\* key in counts
Counted(counts, key) == \E k \in 1..Len(counts) : counts[k].key = key

\* a tally that records the key and never counts past 1
Increment_once(counts, key) ==
    IF Counted(counts, key) THEN counts
    ELSE Append(counts, [key |-> key, count |-> 1])

\* counts[key] += 1 on a defaultdict(int)
Increment(counts, key) ==
    IF Counted(counts, key)
    THEN [k \in 1..Len(counts) |->
             IF counts[k].key = key
             THEN [key |-> key, count |-> counts[k].count + 1]
             ELSE counts[k]]
    ELSE Append(counts, [key |-> key, count |-> 1])

\* the defaultdict after counts[key] was read: a missing key is inserted with int()
Read(counts, key) ==
    IF Counted(counts, key) THEN counts
    ELSE Append(counts, [key |-> key, count |-> 0])

\* the value counts[key] yields
CountOf(counts, key) ==
    IF Counted(counts, key)
    THEN counts[CHOOSE k \in 1..Len(counts) : counts[k].key = key].count
    ELSE 0

\* the loop over the contradictions, up to the n-th
RECURSIVE TallySeverity(_, _)
TallySeverity(list, n) ==
    IF n = 0 THEN <<>>
    ELSE Increment(TallySeverity(list, n - 1), list[n].severity)

RECURSIVE TallyClauseType(_, _)
TallyClauseType(list, n) ==
    IF n = 0 THEN <<>>
    ELSE Increment(TallyClauseType(list, n - 1), list[n].clause_type)

\* a recommendation that needs two contradictions of its kind
Recommend_two(count, text) == IF count > 1 THEN <<text>> ELSE <<>>

\* if counts[key] > 0: recommendations.append(text)
Recommend(count, text) == IF count > 0 THEN <<text>> ELSE <<>>

Recommendations(by_severity, by_clause_type) ==
    Recommend(CountOf(by_severity, "critical"),
              "Address critical contradictions immediately, especially salary or legal terms")
    \o Recommend(CountOf(by_severity, "high"),
                 "Review high-priority contradictions that may affect contract validity")
    \o Recommend(CountOf(by_clause_type, "notice_period"),
                 "Standardize notice period requirements across all documents")
    \o Recommend(CountOf(by_clause_type, "working_hours"),
                 "Align working hours specifications in all relevant documents")

\* the last entry in place of the first
MostCritical_last(list) == list[Len(list)]

\* contradictions[0]
MostCritical(list) == list[1]

\* the dict returned for a list that is not empty; the reads of the two
\* defaultdicts made for the recommendations show in dict(by_severity) and
\* dict(by_clause_type)
Report(list, by_severity, by_clause_type) ==
    [summary |-> <<"Found ", Len(list), " contradiction(s) across documents">>,
     total_contradictions |-> Len(list),
     by_severity |-> Read(Read(by_severity, "critical"), "high"),
     by_clause_type |-> Read(Read(by_clause_type, "notice_period"), "working_hours"),
     recommendations |-> Recommendations(by_severity, by_clause_type),
     most_critical |-> <<MostCritical(list)>>]

\* most_critical is a one-element tuple, and the empty tuple stands for a dict
\* without that key
generate_contradiction_report(list) ==
    IF list = <<>>
    THEN [summary |-> <<"No contradictions found">>,
          total_contradictions |-> 0,
          by_severity |-> <<>>,
          by_clause_type |-> <<>>,
          recommendations |-> <<>>,
          most_critical |-> <<>>]
    ELSE Report(list, TallySeverity(list, Len(list)), TallyClauseType(list, Len(list)))

----------------------------------------------------------------------------
(* Calls of generate_contradiction_report on lists of the caller's making *)

MaxReport == 3

\* contradictions by the two fields the report reads
EntryPool ==
    { [id |-> 0, clause_type |-> "salary", severity |-> "critical"],
      [id |-> 0, clause_type |-> "notice_period", severity |-> "high"],
      [id |-> 0, clause_type |-> "termination_clause", severity |-> "high"],
      [id |-> 0, clause_type |-> "working_hours", severity |-> "medium"],
      [id |-> 0, clause_type |-> "bonus", severity |-> "medium"],
      [id |-> 0, clause_type |-> "bonus", severity |-> "low"] }

RECURSIVE ReportListsOf(_)
ReportListsOf(n) ==
    IF n = 0 THEN {<<>>}
    ELSE {<<entry>> \o list : entry \in EntryPool, list \in ReportListsOf(n - 1)}

ReportPool == UNION {ReportListsOf(n) : n \in 0..MaxReport}

\* report = detector.generate_contradiction_report(list)
Reports(list) ==
    call' = [called |-> TRUE, op |-> "generate_contradiction_report",
             contradictions |-> list, report |-> generate_contradiction_report(list)]

GenerateReportOf(list) ==
    /\ ~call.called
    /\ Reports(list)
    /\ UNCHANGED <<run, db, prs, cmp>>
    /\ UNCHANGED detVars

\* the caller is done with the value
TakeCall ==
    /\ call.called
    /\ call' = [called |-> FALSE]
    /\ UNCHANGED <<run, db, prs, cmp>>
    /\ UNCHANGED detVars

NextReport ==
    \/ \E list \in ReportPool : GenerateReportOf(list)
    \/ TakeCall

SpecReport == Init /\ [][NextReport]_vars

----------------------------------------------------------------------------
(* A detector in use: detection, the report of its list, and detection again *)
(* on the same batch                                                         *)

\* detector.generate_contradiction_report(contradictions) after detection
GenerateReport ==
    /\ pc = "done"
    /\ ~call.called
    /\ Reports(contradictions)
    /\ UNCHANGED <<run, db, prs, cmp>>
    /\ UNCHANGED detVars

\* detector.detect_contradictions(documents), a second time
DetectAgain ==
    /\ pc = "done"
    /\ Return(detect_contradictions(contradiction_rules, documents))
    /\ UNCHANGED <<documents, contradiction_rules, cmp>>
    /\ UNCHANGED pipeVars

NextSession ==
    \/ \E doc \in DocumentPool : AddDocument(doc)
    \/ DetectContradictions
    \/ GenerateReport
    \/ DetectAgain
    \/ TakeCall
    \/ ~call.called /\ NewBatch

SpecSession == Init /\ [][NextSession]_vars

----------------------------------------------------------------------------
(* DatabaseManager's reads and delete_document, on tables a run has filled *)

\* DatabaseManager.get_document_by_id: the rows with the id, none for None
get_document_by_id(database, doc_id) ==
    SelectSeq(database.documents, LAMBDA row : row.id = doc_id)

\* DatabaseManager.get_all_contradictions: the rows of the table, as a set
get_all_contradictions(database) ==
    {database.contradictions[k] : k \in 1..Len(database.contradictions)}

\* DELETE FROM documents WHERE id = ?
DeleteRow(rows, doc_id) == SelectSeq(rows, LAMBDA row : row.id # doc_id)

\* DatabaseManager.delete_document: the document's row goes, the contradictions
\* table is left as it is, and the call returns cursor.rowcount > 0
delete_document(database, doc_id) ==
    [db |-> [database EXCEPT !.documents = DeleteRow(@, doc_id)],
     returned |-> Len(get_document_by_id(database, doc_id)) > 0]

\* the files the database is filled from
StoredFiles == {file \in FilePool : file.filename \in {"contract1.pdf", "contract2.pdf"}}

\* checker.process_documents(file_paths) with files that parse, nothing failing,
\* once the caller has looked at what delete_document returned
ProcessStoredFiles(file_paths) ==
    /\ ~call.called
    /\ ProcessDocuments(file_paths, [doc |-> 0, con |-> 0])

\* db.delete_document(doc_id)
DeleteDocument(doc_id) ==
    /\ ~call.called
    /\ call' = [called |-> TRUE, op |-> "delete_document", doc_id |-> doc_id,
                returned |-> delete_document(db, doc_id).returned,
                db_before |-> db]
    /\ db' = delete_document(db, doc_id).db
    /\ UNCHANGED <<run, cmp, prs>>
    /\ UNCHANGED detVars

NextDatabase ==
    \/ \E n \in 0..MaxRows : \E file_paths \in [1..n -> StoredFiles] :
           ProcessStoredFiles(file_paths)
    \/ TakeResult
    \/ \E doc_id \in 1..MaxRows : DeleteDocument(doc_id)
    \/ TakeCall
    \/ ~call.called /\ clear_all_data

SpecDatabase == Init /\ [][NextDatabase]_vars

----------------------------------------------------------------------------
(* Properties of detect_contradictions (specification Spec) *)

ClauseTypeNames ==
    {"notice_period", "working_hours", "termination_clause", "deadline", "salary",
     "important_dates", "bonus", "Probation"}

Returned == pc = "done"

Carries(doc, t) == \E k \in 1..Len(doc.clauses) : doc.clauses[k].clause_type = t

ValueOf(doc, t) ==
    doc.clauses[CHOOSE k \in 1..Len(doc.clauses) : doc.clauses[k].clause_type = t].value

\* positions i < j whose documents both carry a value for t
CarriedPairs ==
    {e \in ClauseTypeNames \X (1..Len(documents)) \X (1..Len(documents)) :
        /\ e[2] < e[3]
        /\ Carries(documents[e[2]], e[1])
        /\ Carries(documents[e[3]], e[1])}

\* those of them whose values the comparator selected for t judges different
DifferingPairs ==
    {e \in CarriedPairs :
        _compare_clause_values(ValueOf(documents[e[2]], e[1]),
                               ValueOf(documents[e[3]], e[1]),
                               rules_get(contradiction_rules, e[1]).comparison_type).differs}

PairOf(c) == <<c.clause_type, c.documents[1].pos, c.documents[2].pos>>

\* C1: for a batch of two or more documents the returned contradictions are
\* exactly the (clause type, i, j), i < j, whose two documents carry the type
\* with values the selected comparator judges different: each is reported once,
\* nothing else is reported, no position is paired with itself, and the two
\* document entries are the filename and value of documents i and j in that order.
C1_ExactlyTheDifferingPairs ==
    (Returned /\ Len(documents) >= 2) =>
        LET differing == DifferingPairs
        IN  /\ \A k \in 1..Len(contradictions) :
                  LET c == contradictions[k]
                      i == c.documents[1].pos
                      j == c.documents[2].pos
                  IN  /\ PairOf(c) \in differing
                      /\ i # j
                      /\ c.documents[1].filename = documents[i].filename
                      /\ c.documents[1].value = ValueOf(documents[i], c.clause_type)
                      /\ c.documents[2].filename = documents[j].filename
                      /\ c.documents[2].value = ValueOf(documents[j], c.clause_type)
            /\ \A e \in differing :
                  Cardinality({k \in 1..Len(contradictions) :
                                  PairOf(contradictions[k]) = e}) = 1

\* three documents, two of them with one filename, some pairs reported and
\* some carried pair judged equal and left out
C1_Witness ==
    /\ Returned
    /\ Len(documents) = 3
    /\ documents[1].filename = documents[3].filename
    /\ documents[1].clauses # documents[3].clauses
    /\ Cardinality(DifferingPairs) >= 3
    /\ CarriedPairs \ DifferingPairs # {}
    /\ Len(contradictions) = Cardinality(DifferingPairs)

\* the rank the sort gives a severity
SeverityRank(severity) ==
    CASE severity = "critical" -> 0
      [] severity = "high" -> 1
      [] severity = "medium" -> 2
      [] severity = "low" -> 3

\* C2: the returned list is sorted ascending by (severity rank, clause_type
\* name), critical < high < medium < low: consecutive a, b have rank(a) < rank(b),
\* or equal ranks and a.clause_type <= b.clause_type.
C2_SortedBySeverityThenType ==
    Returned =>
        \A k \in 1..(Len(contradictions) - 1) :
            LET a == contradictions[k]
                b == contradictions[k + 1]
            IN  \/ SeverityRank(a.severity) < SeverityRank(b.severity)
                \/ /\ SeverityRank(a.severity) = SeverityRank(b.severity)
                   /\ StrLeq(TypeText(a.clause_type), TypeText(b.clause_type))

\* the unsorted list of the call that produced the current result
Generated ==
    GroupContradictions(contradiction_rules, _group_clauses_by_type(documents), 1)

\* a result the sort had to reorder, with two clause types inside one severity
C2_Witness ==
    /\ Returned
    /\ Len(documents) >= 2
    /\ \E k \in 1..(Len(contradictions) - 1) :
          /\ contradictions[k].severity = contradictions[k + 1].severity
          /\ contradictions[k].clause_type # contradictions[k + 1].clause_type
    /\ \E k \in 1..(Len(Generated) - 1) :
          /\ Generated[k].severity = Generated[k + 1].severity
          /\ ~StrLeq(TypeText(Generated[k].clause_type),
                     TypeText(Generated[k + 1].clause_type))

SeveritiesOf(list) == [k \in 1..Len(list) |-> list[k].severity]

\* C3: the k-th returned contradiction has id k (ids are 1..n in the sorted
\* order); three contradictions of severities medium, critical, high come
\* out as critical (id 1), high (id 2), medium (id 3).
C3_IdsFollowSortedOrder ==
    Returned =>
        /\ \A k \in 1..Len(contradictions) : contradictions[k].id = k
        /\ (Len(documents) >= 2
            /\ SeveritiesOf(Generated) = <<"medium", "critical", "high">>)
           => /\ SeveritiesOf(contradictions) = <<"critical", "high", "medium">>
              /\ [k \in 1..3 |-> contradictions[k].id] = <<1, 2, 3>>

\* the call generated exactly medium, critical, high, in that order
C3_Witness ==
    /\ Returned
    /\ Len(documents) >= 2
    /\ SeveritiesOf(Generated) = <<"medium", "critical", "high">>
    /\ Len(contradictions) = 3
    /\ contradictions[3].id = 3

\* C4: given fewer than two documents, detect_contradictions returns the empty
\* list, whatever clauses the document carries, and runs no comparator.
C4_FewerThanTwoDocuments ==
    (Returned /\ Len(documents) < 2) =>
        /\ contradictions = <<>>
        /\ comparisons = 0

\* a call on a single document that carries clauses
C4_Witness ==
    /\ Returned
    /\ Len(documents) = 1
    /\ Len(documents[1].clauses) >= 3

\* C7: when all documents of a batch of two or more carry identical clause
\* maps, detect_contradictions returns the empty list.
C7_IdenticalDocumentsNoContradiction ==
    (/\ Returned
     /\ Len(documents) >= 2
     /\ \A i \in 1..Len(documents) : documents[i].clauses = documents[1].clauses)
        => contradictions = <<>>

\* the severity the claim names for each clause type of the rule table
ClaimedSeverity(clause_type) ==
    CASE clause_type = "salary" -> "critical"
      [] clause_type \in {"notice_period", "termination_clause", "deadline"} -> "high"
      [] clause_type \in {"working_hours", "important_dates"} -> "medium"

IsSalaryExample ==
    /\ Len(documents) = 2
    /\ Carries(documents[1], "salary")
    /\ Carries(documents[2], "salary")
    /\ ValueOf(documents[1], "salary") = StrValue(<<"$","7","5",",","0","0","0">>)
    /\ ValueOf(documents[2], "salary") = StrValue(<<"$","8","5",",","0","0","0">>)

C9_UnknownTypeDefaultRule ==
    (Returned /\ Len(documents) >= 2) =>
        /\ \A k \in 1..Len(contradictions) :
              LET c == contradictions[k]
              IN  c.clause_type \notin DOMAIN contradiction_rules =>
                      /\ c.severity = "medium"
                      /\ c.details.comparison_type = "text_exact"
        /\ \A e \in CarriedPairs :
              e[1] \notin DOMAIN contradiction_rules =>
                  ((\E k \in 1..Len(contradictions) : PairOf(contradictions[k]) = e)
                   <=> _compare_text_exact(ValueOf(documents[e[2]], e[1]),
                                           ValueOf(documents[e[3]], e[1])).differs)

\* two unknown clause types in one batch: one pair reported, one pair not
C9_Witness ==
    /\ Returned
    /\ \E k \in 1..Len(contradictions) :
          contradictions[k].clause_type \notin DOMAIN contradiction_rules
    /\ \E e \in CarriedPairs \ DifferingPairs : e[1] \notin DOMAIN contradiction_rules

\* the comparator selected for the carried pair e, before any handler
DispatchOf(e) ==
    Dispatch(ValueOf(documents[e[2]], e[1]), ValueOf(documents[e[3]], e[1]),
             rules_get(contradiction_rules, e[1]).comparison_type)

\* what _compare_clause_values hands back for the carried pair e
ComparedOf(e) ==
    _compare_clause_values(ValueOf(documents[e[2]], e[1]), ValueOf(documents[e[3]], e[1]),
                           rules_get(contradiction_rules, e[1]).comparison_type)

Reported(e) == \E k \in 1..Len(contradictions) : PairOf(contradictions[k]) = e

\* C11: when a comparator raises on a pair, the comparison yields differs =
\* false with an error field in its details and the pair gives no
\* contradiction; the other pairs are still compared (every carried pair is
\* compared, and those whose comparator returns "different" are reported); and
\* no call of detect_contradictions ends with an exception.
C11_ComparatorExceptionContained ==
    /\ pc # "raised"
    /\ (Returned /\ Len(documents) >= 2) =>
          /\ comparisons = Cardinality(CarriedPairs)
          /\ \A e \in CarriedPairs :
                IF Raised(DispatchOf(e))
                THEN /\ ~ComparedOf(e).differs
                     /\ "error" \in DOMAIN ComparedOf(e).details
                     /\ ~Reported(e)
                ELSE DispatchOf(e).differs => Reported(e)

\* a comparator raised on a pair, and a pair the loops visit later is reported
C11_Witness ==
    /\ Returned
    /\ \E e \in CarriedPairs :
          /\ Raised(DispatchOf(e))
          /\ \E k \in 1..Len(contradictions) :
                LET c == contradictions[k]
                IN  /\ c.clause_type = e[1]
                    /\ c.documents[1].pos > e[2]

\* three spellings of one amount
SalarySpellings ==
    {StrValue(<<"$","7","5",",","0","0","0">>), StrValue(<<"7","5","0","0","0">>), StrValue(<<"7","5","K">>)}

\* C12: "$75,000", "75000" and "75K" all parse to 75000, every pair of them
\* compares as not different under the numeric comparator, and documents whose
\* salaries are these spellings give no salary contradiction.
C12_NumberFormatInsensitive ==
    Returned =>
        \A e \in CarriedPairs :
            (/\ e[1] = "salary"
             /\ ValueOf(documents[e[2]], "salary") \in SalarySpellings
             /\ ValueOf(documents[e[3]], "salary") \in SalarySpellings)
            => /\ extract_number(ValueOf(documents[e[2]], "salary")) = Some(Rat(75000, 1))
               /\ extract_number(ValueOf(documents[e[3]], "salary")) = Some(Rat(75000, 1))
               /\ ~_compare_numeric_values(ValueOf(documents[e[2]], "salary"),
                                           ValueOf(documents[e[3]], "salary")).differs
               /\ ~Reported(e)

\* a batch of three documents whose salaries are the three spellings
C12_Witness ==
    /\ Returned
    /\ Len(documents) = 3
    /\ \A d \in 1..3 : Carries(documents[d], "salary")
    /\ {ValueOf(documents[d], "salary") : d \in 1..3} = SalarySpellings
    /\ \A k \in 1..Len(contradictions) : contradictions[k].clause_type # "salary"

----------------------------------------------------------------------------
(* Properties of the comparators (specification SpecCompare) *)

\* C5: every comparator is reflexive: comparing a value with itself yields
\* differs = false, for each of the seven comparison types.
C5_ComparatorsReflexive ==
    (cmp.called /\ cmp.value1 = cmp.value2) => ~cmp.result.differs

\* C6: every comparator's verdict is commutative: compare(a, b) and
\* compare(b, a) report the same differs, for every comparison type and values.
C6_ComparatorsCommutative ==
    cmp.called => (cmp.result.differs = cmp.swapped.differs)

\* an antonym pair matched between two different texts
C6_Witness ==
    /\ cmp.called
    /\ cmp.comparison_type = "text_semantic"
    /\ cmp.value1 # cmp.value2
    /\ cmp.result.details.semantic_conflict
    /\ cmp.result.differs
    /\ cmp.swapped.differs

\* the specialised parse of a comparator fails on a value
ParseFails(comparison_type, value) ==
    CASE comparison_type = "numeric" -> ~extract_number(value).some
      [] comparison_type = "time_duration" -> ~parse_duration(value).some
      [] comparison_type = "time_range" -> ~parse_time_range(value).some
      [] comparison_type = "date_list" -> value.kind # "list"

\* C10: when either value fails its specialised parse, the numeric, duration,
\* time-range and date-list comparators report differs exactly when the raw
\* values are unequal after trimming and lower-casing.
C10_FallbackIgnoresCase ==
    (/\ cmp.called
     /\ cmp.comparison_type \in {"numeric", "time_duration", "time_range", "date_list"}
     /\ \/ ParseFails(cmp.comparison_type, cmp.value1)
        \/ ParseFails(cmp.comparison_type, cmp.value2))
        => (cmp.result.differs
               <=> str_lower(str_strip(py_str(cmp.value1)))
                       # str_lower(str_strip(py_str(cmp.value2))))

\* the day count the conversion rule gives the durations of the value pool:
\* a day is 1, a week 7, a month 30 days
ClaimedDays ==
    << <<StrValue(<<"3","0"," ","d","a","y","s">>), 30 * 1>>,
       <<StrValue(<<"2"," ","w","e","e","k","s">>), 2 * 7>>,
       <<StrValue(<<"1"," ","m","o","n","t","h">>), 1 * 30>>,
       <<StrValue(<<"1","4"," ","D","a","y","s">>), 14 * 1>>,
       <<StrValue(<<"3","0"," ","d","a","y","s"," ","n","o","t","i","c","e">>), 30 * 1>> >>

HasClaimedDays(value) == \E k \in 1..Len(ClaimedDays) : ClaimedDays[k][1] = value

DaysOf(value) == ClaimedDays[CHOOSE k \in 1..Len(ClaimedDays) : ClaimedDays[k][1] = value][2]

\* C13: the duration comparator turns '<n> day(s)|week(s)|month(s)' into n, 7n
\* or 30n days and, when both sides parse, reports differs exactly when the day
\* counts are unequal, with difference_days = |d1 - d2|: "30 days" vs "2 weeks"
\* differs by 16, "30 days" vs "30 days" and "1 month" vs "30 days" do not differ.
C13_DurationsComparedInDays ==
    (/\ cmp.called
     /\ cmp.comparison_type = "time_duration"
     /\ HasClaimedDays(cmp.value1)
     /\ HasClaimedDays(cmp.value2))
        => /\ cmp.result.details.parsed_days1 = Some(DaysOf(cmp.value1))
           /\ cmp.result.details.parsed_days2 = Some(DaysOf(cmp.value2))
           /\ cmp.result.differs <=> DaysOf(cmp.value1) # DaysOf(cmp.value2)
           /\ cmp.result.details.difference_days
                  = AbsDiff(DaysOf(cmp.value1), DaysOf(cmp.value2))

\* "1 month" against "30 days": two spellings of one day count
C13_Witness ==
    /\ cmp.called
    /\ cmp.comparison_type = "time_duration"
    /\ cmp.value1 = StrValue(<<"1"," ","m","o","n","t","h">>)
    /\ cmp.value2 = StrValue(<<"3","0"," ","d","a","y","s">>)
    /\ ~cmp.result.differs
    /\ cmp.swapped.details.difference_days = 0

\* the 24-hour (start, end) the conversion rule gives the ranges of the value
\* pool: 12 AM is 0, 12 PM is 12, another PM hour is the hour + 12
ClaimedRange ==
    << <<StrValue(<<"9"," ","A","M"," ","t","o"," ","5"," ","P","M">>), <<9, 5 + 12>> >>,
       <<StrValue(<<"8"," ","A","M"," ","t","o"," ","6"," ","P","M">>), <<8, 6 + 12>> >>,
       <<StrValue(<<"9","a","m","-","5","p","m">>), <<9, 5 + 12>> >>,
       <<StrValue(<<"1","2"," ","A","M"," ","t","o"," ","1","2"," ","P","M">>), <<0, 12>> >> >>

HasClaimedRange(value) == \E k \in 1..Len(ClaimedRange) : ClaimedRange[k][1] = value

RangeOf(value) == ClaimedRange[CHOOSE k \in 1..Len(ClaimedRange) : ClaimedRange[k][1] = value][2]

\* C14: the time-range comparator turns both ends of 'H am/pm to H am/pm' into
\* 24-hour values and, when both sides parse, reports differs exactly when the
\* (start, end) pairs are unequal; a reported difference carries start_time_diff
\* and end_time_diff, the absolute hour differences ("9 AM to 5 PM" vs
\* "8 AM to 6 PM": both 1).
C14_TimeRangesComparedIn24Hours ==
    (/\ cmp.called
     /\ cmp.comparison_type = "time_range"
     /\ HasClaimedRange(cmp.value1)
     /\ HasClaimedRange(cmp.value2))
        => /\ cmp.result.details.parsed_range1 = Some(RangeOf(cmp.value1))
           /\ cmp.result.details.parsed_range2 = Some(RangeOf(cmp.value2))
           /\ cmp.result.differs <=> RangeOf(cmp.value1) # RangeOf(cmp.value2)
           /\ cmp.result.differs =>
                 /\ cmp.result.details.start_time_diff
                        = AbsDiff(RangeOf(cmp.value1)[1], RangeOf(cmp.value2)[1])
                 /\ cmp.result.details.end_time_diff
                        = AbsDiff(RangeOf(cmp.value1)[2], RangeOf(cmp.value2)[2])

\* "9 AM to 5 PM" against "8 AM to 6 PM"
C14_Witness ==
    /\ cmp.called
    /\ cmp.comparison_type = "time_range"
    /\ cmp.value1 = StrValue(<<"9"," ","A","M"," ","t","o"," ","5"," ","P","M">>)
    /\ cmp.value2 = StrValue(<<"8"," ","A","M"," ","t","o"," ","6"," ","P","M">>)
    /\ cmp.result.differs
    /\ cmp.result.details.start_time_diff = 1
    /\ cmp.result.details.end_time_diff = 1

----------------------------------------------------------------------------
(* Properties of process_documents (specification SpecPipeline) *)

FileAt(file_path) == CHOOSE file \in FilePool : file.file_path = file_path

\* positions of the batch whose extraction raised / returned
ExtractionFailed == {k \in 1..Len(run.file_paths) : Raised(extract_text(FileAt(run.file_paths[k])))}

ExtractionSucceeded == (1..Len(run.file_paths)) \ ExtractionFailed

\* positions whose text was extracted, is not blank, and was parsed without an exception
Parsed ==
    {k \in ExtractionSucceeded :
        /\ \E i \in 1..Len(extract_text(FileAt(run.file_paths[k])).text) :
              extract_text(FileAt(run.file_paths[k])).text[i] \notin SpaceSet
        /\ ~Raised(parse_clauses(extract_text(FileAt(run.file_paths[k])).text))}

ListedAs(file_path, status) ==
    \E d \in 1..Len(run.results.documents) :
        /\ run.results.documents[d].file_path = file_path
        /\ run.results.documents[d].status = status

NoFault == [doc |-> 0, con |-> 0]

\* C15: when extraction fails for a file of the batch (and nothing else goes
\* wrong), the batch is not aborted: the files that parse are listed with status
\* success and go through detection, and the failing file is listed in the
\* result's documents with status failed and an error string.
C15_ExtractionFailureIsolated ==
    (run.called /\ run.faults = NoFault /\ ExtractionFailed # {}) =>
        /\ run.results.summary.processing_status # "error"
        /\ \A k \in Parsed : ListedAs(run.file_paths[k], "success")
        /\ Cardinality(Parsed) >= 2 => run.detected
        /\ \A k \in ExtractionFailed :
              \E d \in 1..Len(run.results.documents) :
                  /\ run.results.documents[d].file_path = run.file_paths[k]
                  /\ run.results.documents[d].status = "failed"
                  /\ run.results.documents[d].error # NoError

\* C16: detection runs exactly when at least two files of the batch had their
\* text extracted successfully; with fewer the result is insufficient_documents
\* with no contradictions, total 0, and nothing stored.
C16_DetectionIffTwoExtracted ==
    run.called =>
        /\ run.detected <=> Cardinality(ExtractionSucceeded) >= 2
        /\ Cardinality(ExtractionSucceeded) < 2 =>
              /\ run.results.summary.processing_status = "insufficient_documents"
              /\ run.results.contradictions = <<>>
              /\ run.results.summary.total_contradictions = 0
              /\ db.contradictions = <<>>

\* C16 as amended: detection runs exactly when at least two files were
\* extracted with a text that is not blank and parsed without an exception;
\* otherwise the result is insufficient_documents with no contradictions,
\* total 0, and no contradiction is stored.
C16_DetectionIffTwoParsed ==
    run.called =>
        /\ run.detected <=> Cardinality(Parsed) >= 2
        /\ ~run.detected =>
              /\ run.results.summary.processing_status = "insufficient_documents"
              /\ run.results.contradictions = <<>>
              /\ run.results.summary.total_contradictions = 0
              /\ db.contradictions = <<>>

\* three files extracted, one parsed: no detection
C16_Witness ==
    /\ run.called
    /\ Cardinality(ExtractionSucceeded) = 3
    /\ Cardinality(Parsed) = 1
    /\ ~run.detected
    /\ run.results.summary.processing_status = "insufficient_documents"
    /\ Len(run.results.documents) = 2

\* C17: process_documents never raises: whatever files it is given and
\* whichever of extraction, parsing, detection and persistence fail, it returns
\* a result whose processing_status is success, insufficient_documents or
\* error, with an error string in the summary when it is error.
C17_AlwaysReturnsAResult ==
    run.called =>
        /\ ~Raised(run.results)
        /\ run.results.summary.processing_status
               \in {"success", "insufficient_documents", "error"}
        /\ run.results.summary.processing_status = "error"
               => run.results.summary.error # NoError

\* store_contradiction failed in a batch that also had an extraction failure
C17_Witness ==
    /\ run.called
    /\ ExtractionFailed # {}
    /\ run.faults.con = 1
    /\ run.detected
    /\ run.results.summary.processing_status = "error"
    /\ run.results.summary.error # NoError
    /\ run.results.documents = <<>>

----------------------------------------------------------------------------
(* Properties of the parser's functions (specification SpecParser) *)

\* C18: the normalizer is idempotent: cleaning the already cleaned text gives
\* the same text, also for texts with page-separator markers surrounded by
\* whitespace.
C18_NormalizerIdempotent ==
    (prs.called /\ prs.op = "_clean_text" /\ prs.pass = 2) => prs.output = prs.text

\* the length of a text after trimming and with every run of whitespace
\* counted as one character
CollapsedLen(text) ==
    LET keep == {i \in 1..Len(text) : text[i] \notin SpaceSet}
    IN  Cardinality(keep)
        + Cardinality({i \in 2..Len(text) :
                          /\ text[i] \in SpaceSet
                          /\ text[i - 1] \notin SpaceSet
                          /\ \E k \in keep : k > i})

TrimmedLen(text) ==
    LET keep == {i \in 1..Len(text) : text[i] \notin SpaceSet}
    IN  IF keep = {} THEN 0 ELSE MaxOf(keep) - MinOf(keep) + 1

HasKey(clauses, clause_type) ==
    \E k \in 1..Len(clauses) : clauses[k].clause_type = clause_type

\* C19: every string value of the returned clause map has between 2 and 200
\* characters, trimmed and with its whitespace collapsed; a clause type whose
\* value has length 1 or 201 (any length outside 2..200) is not in the map;
\* a list value is in the map only if an entry survives the filter, and then it
\* is not empty.
C19_StringValuesWithinLimits ==
    (prs.called /\ prs.op = "_post_process_clauses") =>
        /\ \A k \in 1..Len(prs.output) :
              IF prs.output[k].value.kind = "str"
              THEN /\ Len(prs.output[k].value.text) >= 2
                   /\ Len(prs.output[k].value.text) <= 200
                   /\ CollapsedLen(prs.output[k].value.text)
                         = Len(prs.output[k].value.text)
                   /\ HasKey(prs.clauses, prs.output[k].clause_type)
              ELSE prs.output[k].value.items # <<>>
        /\ \A k \in 1..Len(prs.clauses) :
              IF prs.clauses[k].value.kind = "str"
              THEN HasKey(prs.output, prs.clauses[k].clause_type)
                      <=> /\ CollapsedLen(prs.clauses[k].value.text) >= 2
                          /\ CollapsedLen(prs.clauses[k].value.text) <= 200
              ELSE HasKey(prs.output, prs.clauses[k].clause_type)
                      <=> \E n \in 1..Len(prs.clauses[k].value.items) :
                              TrimmedLen(prs.clauses[k].value.items[n]) > 2

\* a value of 201 characters once collapsed and a list without a surviving
\* entry: both clause types are dropped
C19_Witness ==
    /\ prs.called
    /\ prs.op = "_post_process_clauses"
    /\ Len(prs.clauses) = 2
    /\ prs.clauses[1].value.kind = "str"
    /\ Len(prs.clauses[1].value.text) > 201
    /\ CollapsedLen(prs.clauses[1].value.text) = 201
    /\ prs.clauses[2].value.kind = "list"
    /\ prs.output = <<>>

\* C20: the notice period is rendered '<n> <unit>' with the unit in the
\* singular exactly when n = 1 and in the plural for every other n the pattern
\* accepts, 0 included.
C20_NoticePluralUnlessOne ==
    (/\ prs.called
     /\ prs.op = "_extract_notice_period"
     /\ ~Raised(prs.output)
     /\ \E i \in 1..Len(prs.text) : DurationMatchAt(prs.text, i)) =>
        LET out == prs.output.text
        IN  /\ RunEnd(out, 1, DigitSet) >= 1
            /\ (out[Len(out)] = "s")
                  <=> (IntOf(SubSeq(out, 1, RunEnd(out, 1, DigitSet))) # 1)

----------------------------------------------------------------------------
(* Properties of parse_clauses with both recognizers (specification SpecRecognizers) *)

RecognizedTypes ==
    {"notice_period", "working_hours", "termination_clause", "deadline", "salary",
     "important_dates"}

\* the returned map carries value for clause_type as the post-processing leaves
\* it: trimmed and collapsed when its length is within the limits, absent otherwise
CarriesValue(clause_type, value) ==
    IF CollapsedLen(value.text) >= 2 /\ CollapsedLen(value.text) <= 200
    THEN /\ HasKey(prs.output.clauses, clause_type)
         /\ ValueAt(prs.output.clauses, clause_type) = StrValue(CleanedValue(value.text))
    ELSE ~HasKey(prs.output.clauses, clause_type)

----------------------------------------------------------------------------
(* Properties of generate_contradiction_report (specifications SpecReport, SpecSession) *)

ReportMade == call.called /\ call.op = "generate_contradiction_report"

\* how many contradictions of the reported list have the severity / clause type
WithSeverity(severity) ==
    Cardinality({k \in 1..Len(call.contradictions) :
                    call.contradictions[k].severity = severity})

WithClauseType(clause_type) ==
    Cardinality({k \in 1..Len(call.contradictions) :
                    call.contradictions[k].clause_type = clause_type})

RECURSIVE SumOfCounts(_)
SumOfCounts(counts) ==
    IF counts = <<>> THEN 0 ELSE Head(counts).count + SumOfCounts(Tail(counts))

UniqueKeys(counts) ==
    \A j \in 1..Len(counts), k \in 1..Len(counts) : counts[j].key = counts[k].key => j = k

\* C22: the report of a non-empty list has total_contradictions equal to the
\* list's length, by_severity[s] the number of contradictions of severity s,
\* by_clause_type[t] the number of clause type t, and each map's counts sum to
\* the total; the report of the empty list is the fixed summary with total 0,
\* empty maps and no recommendations.
C22_ReportTallies ==
    ReportMade =>
        IF call.contradictions = <<>>
        THEN /\ call.report.summary = <<"No contradictions found">>
             /\ call.report.total_contradictions = 0
             /\ call.report.by_severity = <<>>
             /\ call.report.by_clause_type = <<>>
             /\ call.report.recommendations = <<>>
        ELSE /\ call.report.total_contradictions = Len(call.contradictions)
             /\ UniqueKeys(call.report.by_severity)
             /\ UniqueKeys(call.report.by_clause_type)
             /\ \A k \in 1..Len(call.report.by_severity) :
                   call.report.by_severity[k].count
                      = WithSeverity(call.report.by_severity[k].key)
             /\ \A k \in 1..Len(call.contradictions) :
                   \E j \in 1..Len(call.report.by_severity) :
                       call.report.by_severity[j].key = call.contradictions[k].severity
             /\ \A k \in 1..Len(call.report.by_clause_type) :
                   call.report.by_clause_type[k].count
                      = WithClauseType(call.report.by_clause_type[k].key)
             /\ \A k \in 1..Len(call.contradictions) :
                   \E j \in 1..Len(call.report.by_clause_type) :
                       call.report.by_clause_type[j].key = call.contradictions[k].clause_type
             /\ SumOfCounts(call.report.by_severity) = Len(call.contradictions)
             /\ SumOfCounts(call.report.by_clause_type) = Len(call.contradictions)

\* three contradictions, two of one severity and two of one clause type
C22_Witness ==
    /\ ReportMade
    /\ Len(call.contradictions) = 3
    /\ WithSeverity("medium") = 2
    /\ WithClauseType("bonus") = 2
    /\ \E k \in 1..Len(call.report.by_clause_type) :
          /\ call.report.by_clause_type[k].key = "bonus"
          /\ call.report.by_clause_type[k].count = 2

\* C23: in the report of a non-empty list the urgent-review recommendation is
\* present exactly when a contradiction is critical, the review recommendation
\* exactly when one is high, the notice-period one exactly when one has clause
\* type notice_period, the working-hours one exactly when one has clause type
\* working_hours; they come in that order and there is no other.
C23_RecommendationsByKind ==
    (ReportMade /\ call.contradictions # <<>>) =>
        call.report.recommendations =
            (IF WithSeverity("critical") >= 1
             THEN <<"Address critical contradictions immediately, especially salary or legal terms">>
             ELSE <<>>)
            \o (IF WithSeverity("high") >= 1
                THEN <<"Review high-priority contradictions that may affect contract validity">>
                ELSE <<>>)
            \o (IF WithClauseType("notice_period") >= 1
                THEN <<"Standardize notice period requirements across all documents">>
                ELSE <<>>)
            \o (IF WithClauseType("working_hours") >= 1
                THEN <<"Align working hours specifications in all relevant documents">>
                ELSE <<>>)

\* one critical contradiction and one of working hours, none high and none of
\* the notice period: two recommendations
C23_Witness ==
    /\ ReportMade
    /\ WithSeverity("critical") = 1
    /\ WithSeverity("high") = 0
    /\ WithClauseType("notice_period") = 0
    /\ WithClauseType("working_hours") = 1
    /\ Len(call.report.recommendations) = 2

\* C29: in the report of a non-empty list by_severity has a key only for a
\* severity that occurs in the list and by_clause_type only for a clause type
\* that occurs; no key carries the count 0.
C29_NoZeroCounts ==
    (ReportMade /\ call.contradictions # <<>>) =>
        /\ \A k \in 1..Len(call.report.by_severity) :
              /\ call.report.by_severity[k].count # 0
              /\ WithSeverity(call.report.by_severity[k].key) >= 1
        /\ \A k \in 1..Len(call.report.by_clause_type) :
              /\ call.report.by_clause_type[k].count # 0
              /\ WithClauseType(call.report.by_clause_type[k].key) >= 1

\* C24: for a non-empty list produced by detect_contradictions the report's
\* most_critical is the contradiction with id 1, and no contradiction of the
\* list has a severity of strictly higher priority.
C24_MostCriticalIsFirst ==
    (ReportMade /\ pc = "done" /\ contradictions # <<>>) =>
        /\ call.contradictions = contradictions
        /\ Len(call.report.most_critical) = 1
        /\ call.report.most_critical[1].id = 1
        /\ \E k \in 1..Len(contradictions) : contradictions[k] = call.report.most_critical[1]
        /\ \A k \in 1..Len(contradictions) :
              SeverityRank(contradictions[k].severity)
                 >= SeverityRank(call.report.most_critical[1].severity)

\* a list of two severities at least, reported
C24_Witness ==
    /\ ReportMade
    /\ pc = "done"
    /\ Len(contradictions) >= 3
    /\ contradictions[1].severity = "critical"
    /\ contradictions[Len(contradictions)].severity = "medium"
    /\ call.report.most_critical[1].id = 1

----------------------------------------------------------------------------
(* The order of equal keys and the frame of the detector's calls *)

\* the pair of input positions (i, j) comes before (k, l)
PairBefore(a, b) ==
    \/ a.documents[1].pos < b.documents[1].pos
    \/ /\ a.documents[1].pos = b.documents[1].pos
       /\ a.documents[2].pos < b.documents[2].pos

\* C25: contradictions of the same severity and the same clause type keep the
\* order in which their pairs were generated: the pair (i, j) of input positions
\* comes before (k, l) in the output, and has the smaller id, exactly when
\* (i, j) is lexicographically smaller.
C25_TiesKeepGenerationOrder ==
    Returned =>
        \A x \in 1..Len(contradictions), y \in 1..Len(contradictions) :
            (/\ contradictions[x].severity = contradictions[y].severity
             /\ contradictions[x].clause_type = contradictions[y].clause_type) =>
                /\ x < y <=> PairBefore(contradictions[x], contradictions[y])
                /\ contradictions[x].id < contradictions[y].id
                      <=> PairBefore(contradictions[x], contradictions[y])

\* the three pairs of three documents reported for one clause type
C25_Witness ==
    /\ Returned
    /\ \E x \in 1..Len(contradictions) :
          /\ x + 2 <= Len(contradictions)
          /\ contradictions[x + 1].clause_type = contradictions[x].clause_type
          /\ contradictions[x + 2].clause_type = contradictions[x].clause_type
          /\ PairOf(contradictions[x]) = <<contradictions[x].clause_type, 1, 2>>
          /\ PairOf(contradictions[x + 1]) = <<contradictions[x].clause_type, 1, 3>>
          /\ PairOf(contradictions[x + 2]) = <<contradictions[x].clause_type, 2, 3>>

----------------------------------------------------------------------------
(* Properties of the pipeline's persistence (specification SpecPipeline) *)

\* the rows store_document added in this run
StoredInRun == {k \in 1..Len(db.documents) : db.documents[k].id > run.db_before.doc_seq}

\* the contradictions the run returned and those it stored
RunContradictions ==
    {run.results.contradictions[k] : k \in 1..Len(run.results.contradictions)}
    \cup {c \in {db.contradictions[k] : k \in 1..Len(db.contradictions)} :
             c.id > run.db_before.con_seq}

\* C27: every successfully parsed document is stored with store_document
\* before detection starts and before any store_contradiction call, and each
\* document entry of every returned or stored contradiction carries the doc_id
\* store_document returned for that document in this run.
C27_StoredBeforeDetection ==
    (run.called /\ run.detected) =>
        /\ \A k \in Parsed :
              \E r \in StoredInRun : db.documents[r].file_path = run.file_paths[k]
        /\ \A c \in RunContradictions :
              \A e \in 1..Len(c.documents) :
                  \E r \in StoredInRun :
                      /\ db.documents[r].id = c.documents[e].doc_id
                      /\ db.documents[r].filename = c.documents[e].filename

\* C28: each input file contributes at most one entry to results.documents, no
\* file is listed both with status success and with status failed, and no
\* document listed as failed contributes a value to a returned contradiction,
\* also when store_document fails for the file.
C28_OneEntryPerFile ==
    run.called =>
        /\ \A p \in {run.file_paths[k] : k \in 1..Len(run.file_paths)} :
              Cardinality({j \in 1..Len(run.results.documents) :
                              run.results.documents[j].file_path = p})
                 <= Cardinality({k \in 1..Len(run.file_paths) : run.file_paths[k] = p})
        /\ \A k \in 1..Len(run.file_paths) :
              ~(/\ ListedAs(run.file_paths[k], "success")
                /\ ListedAs(run.file_paths[k], "failed"))
        /\ \A k \in 1..Len(run.results.documents) :
              run.results.documents[k].status = "failed" =>
                  \A n \in 1..Len(run.results.contradictions) :
                      \A e \in 1..2 :
                          run.results.contradictions[n].documents[e].filename
                             # run.results.documents[k].filename

----------------------------------------------------------------------------
(* Properties of delete_document (specification SpecDatabase) *)

Deleted == call.called /\ call.op = "delete_document"

\* the stored contradictions one of whose document entries carries the id
RelatedTo(database, doc_id) ==
    {c \in get_all_contradictions(database) :
        \E e \in 1..Len(c.documents) : c.documents[e].doc_id = doc_id}

\* C30: after delete_document(id) returns true, get_document_by_id(id) returns
\* nothing and get_all_contradictions returns no contradiction whose document
\* entries carry doc_id id; when no document has the id it returns false and
\* changes nothing.
C30_DeleteRemovesRelated ==
    Deleted =>
        /\ call.returned =>
              /\ get_document_by_id(db, call.doc_id) = <<>>
              /\ RelatedTo(db, call.doc_id) = {}
        /\ get_document_by_id(call.db_before, call.doc_id) = <<>> =>
              /\ ~call.returned
              /\ db = call.db_before

====
